---- MODULE Spec2Model ----
(***************************************************************************)
(* A model of the Word tracked-change / comment editing core:              *)
(*   docx/scripts/utilities.py      XMLEditor                              *)
(*   docx/scripts/document.py       DocxXMLEditor, Document                *)
(*   docx/ooxml/scripts/pack.py     pack_document                          *)
(*   .../validation/redlining.py    RedliningValidator                     *)
(*   .../validation/base.py, docx.py  schema validation engine             *)
(*                                                                         *)
(* An XML element is a record [tag, attrs, text, kids]: attrs is a         *)
(* function from attribute names to string values, text is the character   *)
(* data of a text leaf (a sequence of one-character strings), kids the     *)
(* child elements in document order.  A path is a sequence of child        *)
(* indices from the root element.                                          *)
(***************************************************************************)
EXTENDS Integers, Sequences, FiniteSets, TLC

VARIABLES
    dom,      \* DocxXMLEditor.dom of word/document.xml (the in-memory working tree)
    base,     \* word/document.xml inside the baseline archive (original.docx)
    author,   \* Document.author / DocxXMLEditor.author of the session
    nops,     \* number of operations performed so far (bounded by MaxOps)
    last,     \* the last operation: what was called and whether it raised
    direct,   \* some text was edited in place, outside every tracked-change region
    mem,      \* Document._editors: the in-memory DOM of each part of the session
    disk,     \* the directories and the archive the session reads and writes
    sess,     \* Document.next_comment_id and Document.existing_comments
    hist,     \* record of the calls made on the session and what they returned
    xsd,      \* one XML part under baseline-diffed XSD validation
    chk       \* one run of the validators over a package

treeVars == <<dom, base, nops, last, direct>>

sessionVars == <<mem, disk, sess, hist>>

vars == <<dom, base, author, nops, last, direct, mem, disk, sess, hist, xsd, chk>>

\* the value of a variable in a specification that does not use it
Idle == "idle"

\* ------------------------------------------------------------------------
\* Bounds of the model
\* ------------------------------------------------------------------------
MaxOps == 2

\* ------------------------------------------------------------------------
\* Elements, paths
\* ------------------------------------------------------------------------
NoAttrs == <<>>

Elem(tag, attrs, kids) == [tag |-> tag, attrs |-> attrs, text |-> <<>>, kids |-> kids]

Leaf(tag, attrs, text) == [tag |-> tag, attrs |-> attrs, text |-> text, kids |-> <<>>]

HasAttr(n, k) == k \in DOMAIN n.attrs

\* Element.getAttribute: "" when the attribute is not there
GetAttr(n, k) == IF HasAttr(n, k) THEN n.attrs[k] ELSE ""

SetAttr(n, k, v) == [n EXCEPT !.attrs = (k :> v) @@ n.attrs]

DelAttr(n, k) == [n EXCEPT !.attrs = [a \in (DOMAIN n.attrs) \ {k} |-> n.attrs[a]]]

\* F(v) with v computed before F starts: the tree a loop hands to its next
\* iteration, or the element put into a tree, is complete when it is used
Strict(v, F(_)) == IF v = v THEN F(v) ELSE F(v)

RECURSIVE At(_, _)
At(n, p) == IF p = <<>> THEN n ELSE At(n.kids[Head(p)], Tail(p))

\* n with the element at the non-empty path p replaced by the sequence ns
RECURSIVE Splice(_, _, _)
Splice(n, p, ns) ==
    LET i == Head(p) IN
    IF Len(p) = 1
    THEN [n EXCEPT !.kids = SubSeq(n.kids, 1, i - 1) \o ns
                            \o SubSeq(n.kids, i + 1, Len(n.kids))]
    ELSE [n EXCEPT !.kids[i] = Splice(n.kids[i], Tail(p), ns)]

SetAt(n, p, m) == Strict(m, LAMBDA e : IF p = <<>> THEN e ELSE Splice(n, p, <<e>>))

ParentPath(p) == SubSeq(p, 1, Len(p) - 1)

IsPrefix(q, p) == Len(q) <= Len(p) /\ SubSeq(p, 1, Len(q)) = q

\* paths of all descendants of n in document order (n itself excluded)
RECURSIVE DescPaths(_)
RECURSIVE KidPaths(_, _)
KidPaths(n, i) ==
    IF i > Len(n.kids) THEN <<>>
    ELSE LET below == DescPaths(n.kids[i]) IN
         <<<<i>>>> \o [j \in 1..Len(below) |-> <<i>> \o below[j]] \o KidPaths(n, i + 1)
DescPaths(n) == KidPaths(n, 1)

\* Element.getElementsByTagName(tag) on the element at path p: absolute paths
ByTagUnder(tree, p, tag) ==
    LET below == DescPaths(At(tree, p))
        abs == [j \in 1..Len(below) |-> p \o below[j]]
    IN SelectSeq(abs, LAMBDA q : At(tree, q).tag = tag)

\* Document.getElementsByTagName(tag): the document element included
ByTagInDoc(tree, tag) ==
    (IF tree.tag = tag THEN <<<<>>>> ELSE <<>>) \o ByTagUnder(tree, <<>>, tag)

\* every path of the tree, the root included
AllPaths(tree) == <<<<>>>> \o DescPaths(tree)

SeqToSet(s) == {s[i] : i \in 1..Len(s)}

\* ------------------------------------------------------------------------
\* Decimal strings: str(n) and int(s)
\* ------------------------------------------------------------------------
NumStr ==
  <<"0", "1", "2", "3", "4", "5", "6", "7", "8", "9", "10", "11", "12",
    "13", "14", "15", "16", "17", "18", "19", "20", "21", "22", "23", "24",
    "25", "26", "27", "28", "29", "30", "31", "32", "33", "34", "35", "36",
    "37", "38", "39", "40">>

StrOf(n) == NumStr[n + 1]

IsNum(s) == \E i \in 1..Len(NumStr) : NumStr[i] = s

IntOf(s) == (CHOOSE i \in 1..Len(NumStr) : NumStr[i] = s) - 1

Max2(a, b) == IF a >= b THEN a ELSE b

RECURSIVE MaxIdOver(_, _, _, _)
\* the loop "max_id = max(max_id, int(id))" over the elements at paths ps[i..]
MaxIdOver(tree, ps, i, acc) ==
    IF i > Len(ps) THEN acc
    ELSE LET n == At(tree, ps[i])
             v == IF HasAttr(n, "w:id") /\ IsNum(n.attrs["w:id"])
                  THEN Max2(acc, IntOf(n.attrs["w:id"])) ELSE acc
         IN MaxIdOver(tree, ps, i + 1, v)

\* DocxXMLEditor._get_next_change_id
NextChangeId(tree) ==
    MaxIdOver(tree, ByTagInDoc(tree, "w:ins") \o ByTagInDoc(tree, "w:del"), 1, -1) + 1

\* ------------------------------------------------------------------------
\* DocxXMLEditor._inject_attributes_to_nodes
\* ctx = [rsid, author, initials, ts, hex]: the editor's rsid / author /
\* initials, the timestamp of the call and the value _generate_hex_id draws
\* ------------------------------------------------------------------------
Whitespace == {" ", "\t", "\n"}

W16DU == "http://schemas.microsoft.com/office/word/2023/wordml/word16du"

W16CEX == "http://schemas.microsoft.com/office/word/2018/wordml/cex"

W14 == "http://schemas.microsoft.com/office/word/2010/wordml"

\* _ensure_w16du_namespace / _ensure_w16cex_namespace / _ensure_w14_namespace
EnsureNs(tree, k, uri) == IF HasAttr(tree, k) THEN tree ELSE SetAttr(tree, k, uri)

\* a variant that sets the attribute whether or not the element carries it
AddIfAbsent_overwrites(n, k, v) == SetAttr(n, k, v)

\* "if not elem.hasAttribute(k): elem.setAttribute(k, v)"
AddIfAbsent(n, k, v) == IF HasAttr(n, k) THEN n ELSE SetAttr(n, k, v)

\* is_inside_deletion: some proper ancestor of the element at q is a w:del
IsInsideDeletion(tree, q) ==
    \E k \in 0..(Len(q) - 1) : At(tree, SubSeq(q, 1, k)).tag = "w:del"

add_rsid_to_p(tree, q, ctx) ==
    LET n == At(tree, q)
        n1 == AddIfAbsent(AddIfAbsent(AddIfAbsent(n, "w:rsidR", ctx.rsid),
                  "w:rsidRDefault", ctx.rsid), "w:rsidP", ctx.rsid)
        t1 == SetAt(tree, q, n1)
        t2 == IF HasAttr(n1, "w14:paraId") THEN t1
              ELSE SetAt(EnsureNs(t1, "xmlns:w14", W14), q,
                         SetAttr(At(EnsureNs(t1, "xmlns:w14", W14), q), "w14:paraId", ctx.hex))
        t3 == IF HasAttr(At(t2, q), "w14:textId") THEN t2
              ELSE SetAt(EnsureNs(t2, "xmlns:w14", W14), q,
                         SetAttr(At(EnsureNs(t2, "xmlns:w14", W14), q), "w14:textId", ctx.hex))
    IN t3

add_rsid_to_r(tree, q, ctx) ==
    LET n == At(tree, q) IN
    IF IsInsideDeletion(tree, q)
    THEN SetAt(tree, q, AddIfAbsent(n, "w:rsidDel", ctx.rsid))
    ELSE SetAt(tree, q, AddIfAbsent(n, "w:rsidR", ctx.rsid))

add_xml_space_to_t(tree, q) ==
    LET n == At(tree, q) IN
    IF /\ n.text # <<>>
       /\ (n.text[1] \in Whitespace \/ n.text[Len(n.text)] \in Whitespace)
    THEN SetAt(tree, q, AddIfAbsent(n, "xml:space", "preserve"))
    ELSE tree

add_tracked_change_attrs(tree, q, ctx) ==
    LET n == At(tree, q)
        n1 == AddIfAbsent(n, "w:id", StrOf(NextChangeId(tree)))
        n2 == AddIfAbsent(AddIfAbsent(n1, "w:author", ctx.author), "w:date", ctx.ts)
        t2 == SetAt(tree, q, n2)
    IN IF HasAttr(n2, "w16du:dateUtc") THEN t2
       ELSE LET t3 == EnsureNs(t2, "xmlns:w16du", W16DU)
            IN SetAt(t3, q, SetAttr(At(t3, q), "w16du:dateUtc", ctx.ts))

add_comment_attrs(tree, q, ctx) ==
    SetAt(tree, q, AddIfAbsent(AddIfAbsent(AddIfAbsent(At(tree, q),
          "w:author", ctx.author), "w:date", ctx.ts), "w:initials", ctx.initials))

add_comment_extensible_date(tree, q, ctx) ==
    IF HasAttr(At(tree, q), "w16cex:dateUtc") THEN tree
    ELSE LET t1 == EnsureNs(tree, "xmlns:w16cex", W16CEX)
         IN SetAt(t1, q, SetAttr(At(t1, q), "w16cex:dateUtc", ctx.ts))

\* what the injection does to the one element at q, by its tag
InjectOne(tree, q, ctx) ==
    LET tag == At(tree, q).tag IN
    CASE tag = "w:p" -> add_rsid_to_p(tree, q, ctx)
      [] tag = "w:r" -> add_rsid_to_r(tree, q, ctx)
      [] tag = "w:t" -> add_xml_space_to_t(tree, q)
      [] tag \in {"w:ins", "w:del"} -> add_tracked_change_attrs(tree, q, ctx)
      [] tag = "w:comment" -> add_comment_attrs(tree, q, ctx)
      [] tag = "w16cex:commentExtensible" -> add_comment_extensible_date(tree, q, ctx)
      [] OTHER -> tree

RECURSIVE InjectSteps(_, _, _, _)
InjectSteps(tree, qs, i, ctx) ==
    IF i > Len(qs) THEN tree
    ELSE Strict(InjectOne(tree, qs[i], ctx), LAMBDA t : InjectSteps(t, qs, i + 1, ctx))

\* the body of "for node in nodes" for the element at q: the node itself, then
\* its descendants tag by tag
InjectNode(tree, q, ctx) ==
    LET self == IF At(tree, q).tag \in {"w:p", "w:r", "w:t", "w:ins", "w:del",
                        "w:comment", "w16cex:commentExtensible"}
                THEN <<q>> ELSE <<>>
        order == self \o ByTagUnder(tree, q, "w:p") \o ByTagUnder(tree, q, "w:r")
                 \o ByTagUnder(tree, q, "w:t") \o ByTagUnder(tree, q, "w:ins")
                 \o ByTagUnder(tree, q, "w:del") \o ByTagUnder(tree, q, "w:comment")
                 \o ByTagUnder(tree, q, "w16cex:commentExtensible")
    IN InjectSteps(tree, order, 1, ctx)

RECURSIVE inject_attributes_to_nodes(_, _, _, _)
\* qs: the paths of the inserted nodes that are elements
inject_attributes_to_nodes(tree, qs, i, ctx) ==
    IF i > Len(qs) THEN tree
    ELSE Strict(InjectNode(tree, qs[i], ctx),
                LAMBDA t : inject_attributes_to_nodes(t, qs, i + 1, ctx))

\* ------------------------------------------------------------------------
\* Pieces shared by the tracked-change transforms
\* ------------------------------------------------------------------------
RECURSIVE Retag(_, _, _)
\* every element tagged from, in the subtree n, becomes an element tagged to
\* with the same attributes and children (createElement; move children;
\* copy attributes; replaceChild)
Retag(n, from, to) ==
    [n EXCEPT !.tag = IF n.tag = from THEN to ELSE n.tag,
              !.kids = [i \in 1..Len(n.kids) |-> Retag(n.kids[i], from, to)]]

\* the same for the descendants of n only (getElementsByTagName excludes n)
RetagBelow(n, from, to) ==
    [n EXCEPT !.kids = [i \in 1..Len(n.kids) |-> Retag(n.kids[i], from, to)]]

\* "run attributes: w:rsidR -> w:rsidDel"
RsidToDel(run, rsid) ==
    IF HasAttr(run, "w:rsidR")
    THEN DelAttr(SetAttr(run, "w:rsidDel", run.attrs["w:rsidR"]), "w:rsidR")
    ELSE IF ~HasAttr(run, "w:rsidDel") THEN SetAttr(run, "w:rsidDel", rsid)
    ELSE run

\* "run attributes: w:rsidDel -> w:rsidR"
RsidToIns(run, rsid) ==
    IF HasAttr(run, "w:rsidDel")
    THEN DelAttr(SetAttr(run, "w:rsidR", run.attrs["w:rsidDel"]), "w:rsidDel")
    ELSE IF ~HasAttr(run, "w:rsidR") THEN SetAttr(run, "w:rsidR", rsid)
    ELSE run

RECURSIVE RsidToDelAll(_, _, _, _)
\* the loop over the runs at paths qs[i..]
RsidToDelAll(tree, qs, i, rsid) ==
    IF i > Len(qs) THEN tree
    ELSE Strict(SetAt(tree, qs[i], RsidToDel(At(tree, qs[i]), rsid)),
                LAMBDA t : RsidToDelAll(t, qs, i + 1, rsid))

Raised(tree) == [raised |-> TRUE, dom |-> tree]

Returned(tree) == [raised |-> FALSE, dom |-> tree]

\* ------------------------------------------------------------------------
\* Character data: what is written into markup and what a parse reads back
\* ------------------------------------------------------------------------
RECURSIVE ReplaceAll(_, _, _)
\* str.replace(c, by) on a sequence of characters
ReplaceAll(s, c, by) ==
    IF s = <<>> THEN <<>>
    ELSE (IF Head(s) = c THEN by ELSE <<Head(s)>>) \o ReplaceAll(Tail(s), c, by)

AMP == <<"&", "a", "m", "p", ";">>

LT == <<"&", "l", "t", ";">>

GT == <<"&", "g", "t", ";">>

\* minidom _write_data: the character data of a text node as toxml writes it
WriteData(s) == ReplaceAll(ReplaceAll(ReplaceAll(s, "&", AMP), "<", LT), ">", GT)

\* characters XML 1.0 does not allow in a document
XmlInvalidChars == {"\f"}

StartsWith(s, pre) == Len(s) >= Len(pre) /\ SubSeq(s, 1, Len(pre)) = pre

RECURSIVE ParseCharData(_)
\* the parser on the character data of one text leaf: [ok, text]; ok is FALSE
\* where expat reports "not well-formed"
ParseCharData(s) ==
    IF s = <<>> THEN [ok |-> TRUE, text |-> <<>>]
    ELSE LET ent == CASE StartsWith(s, AMP) -> <<"&", Len(AMP)>>
                      [] StartsWith(s, LT) -> <<"<", Len(LT)>>
                      [] StartsWith(s, GT) -> <<">", Len(GT)>>
                      [] OTHER -> <<Head(s), 1>>
             plain == Head(s) \notin ({"&", "<"} \cup XmlInvalidChars)
         IN IF ent[2] = 1 /\ ~plain THEN [ok |-> FALSE, text |-> <<>>]
            ELSE LET rest == ParseCharData(SubSeq(s, ent[2] + 1, Len(s)))
                 IN [ok |-> rest.ok, text |-> <<ent[1]>> \o rest.text]

RECURSIVE Reparse(_)
\* Element.toxml() followed by XMLEditor._parse_fragment, on one element
Reparse(n) ==
    [n EXCEPT !.text = ParseCharData(WriteData(n.text)).text,
              !.kids = [i \in 1..Len(n.kids) |-> Reparse(n.kids[i])]]

\* ------------------------------------------------------------------------
\* XMLEditor / DocxXMLEditor insert_after, insert_before, append_to with the
\* fragment given as its parsed elements ns
\* ------------------------------------------------------------------------
NewPaths(par, first, n) == [k \in 1..n |-> par \o <<first + k - 1>>]

replace_node(tree, q, ns, ctx) ==
    LET t1 == Splice(tree, q, ns)
    IN Strict(t1, LAMBDA t :
           inject_attributes_to_nodes(t, NewPaths(ParentPath(q), q[Len(q)], Len(ns)), 1, ctx))

insert_after(tree, q, ns, ctx) ==
    LET t1 == Splice(tree, q, <<At(tree, q)>> \o ns)
    IN Strict(t1, LAMBDA t :
           inject_attributes_to_nodes(t, NewPaths(ParentPath(q), q[Len(q)] + 1, Len(ns)), 1, ctx))

insert_before(tree, q, ns, ctx) ==
    LET t1 == Splice(tree, q, ns \o <<At(tree, q)>>)
    IN Strict(t1, LAMBDA t :
           inject_attributes_to_nodes(t, NewPaths(ParentPath(q), q[Len(q)], Len(ns)), 1, ctx))

append_to(tree, q, ns, ctx) ==
    LET e == At(tree, q)
        t1 == SetAt(tree, q, [e EXCEPT !.kids = e.kids \o ns])
    IN Strict(t1, LAMBDA t :
           inject_attributes_to_nodes(t, NewPaths(q, Len(e.kids) + 1, Len(ns)), 1, ctx))

\* ------------------------------------------------------------------------
\* DocxXMLEditor.suggest_deletion
\* ------------------------------------------------------------------------
suggest_deletion_run(tree, p, ctx) ==
    IF ByTagUnder(tree, p, "w:delText") # <<>> THEN Raised(tree)
    ELSE LET run == RsidToDel(RetagBelow(At(tree, p), "w:t", "w:delText"), ctx.rsid)
             t1 == SetAt(tree, p, Elem("w:del", NoAttrs, <<run>>))
         IN Returned(inject_attributes_to_nodes(t1, <<p>>, 1, ctx))

\* "add <w:del/> to the w:rPr inside w:pPr", pPr at path q
AddDelMarker(tree, q) ==
    LET rPrs == ByTagUnder(tree, q, "w:rPr")
        marker == Elem("w:del", NoAttrs, <<>>)
        pPr == At(tree, q)
    IN IF rPrs = <<>>
       THEN SetAt(tree, q, [pPr EXCEPT !.kids = pPr.kids \o <<Elem("w:rPr", NoAttrs, <<marker>>)>>])
       ELSE LET rPr == At(tree, rPrs[1])
            IN SetAt(tree, rPrs[1], [rPr EXCEPT !.kids = <<marker>> \o rPr.kids])

\* a variant that converts the text leaves before it looks for tracked changes
suggest_deletion_paragraph_checks_late(tree, p, ctx) ==
    LET t2 == SetAt(tree, p, RetagBelow(At(tree, p), "w:t", "w:delText"))
    IN IF ByTagUnder(tree, p, "w:ins") # <<>> \/ ByTagUnder(tree, p, "w:del") # <<>>
       THEN Raised(t2)
       ELSE LET e == At(t2, p)
                keep == SelectSeq(e.kids, LAMBDA c : c.tag = "w:pPr")
                moved == SelectSeq(e.kids, LAMBDA c : c.tag # "w:pPr")
                t4 == SetAt(t2, p, [e EXCEPT !.kids = keep \o <<Elem("w:del", NoAttrs, moved)>>])
            IN Returned(inject_attributes_to_nodes(t4, <<p \o <<Len(keep) + 1>>>>, 1, ctx))

suggest_deletion_paragraph(tree, p, ctx) ==
    IF ByTagUnder(tree, p, "w:ins") # <<>> \/ ByTagUnder(tree, p, "w:del") # <<>>
    THEN Raised(tree)
    ELSE LET pPrs == ByTagUnder(tree, p, "w:pPr")
             numbered == pPrs # <<>> /\ ByTagUnder(tree, pPrs[1], "w:numPr") # <<>>
             t1 == IF numbered THEN AddDelMarker(tree, pPrs[1]) ELSE tree
             t2 == SetAt(t1, p, RetagBelow(At(t1, p), "w:t", "w:delText"))
             t3 == RsidToDelAll(t2, ByTagUnder(t2, p, "w:r"), 1, ctx.rsid)
             e == At(t3, p)
             keep == SelectSeq(e.kids, LAMBDA c : c.tag = "w:pPr")
             moved == SelectSeq(e.kids, LAMBDA c : c.tag # "w:pPr")
             t4 == SetAt(t3, p, [e EXCEPT !.kids = keep \o <<Elem("w:del", NoAttrs, moved)>>])
         IN Returned(inject_attributes_to_nodes(t4, <<p \o <<Len(keep) + 1>>>>, 1, ctx))

suggest_deletion(tree, p, ctx) ==
    CASE At(tree, p).tag = "w:r" -> suggest_deletion_run(tree, p, ctx)
      [] At(tree, p).tag = "w:p" -> suggest_deletion_paragraph(tree, p, ctx)
      [] OTHER -> Raised(tree)

\* ------------------------------------------------------------------------
\* DocxXMLEditor.revert_insertion
\* ------------------------------------------------------------------------
RECURSIVE RevertRuns(_, _, _, _)
\* "for run in runs": rsid attribute, then w:t -> w:delText below the run
RevertRuns(tree, qs, i, rsid) ==
    IF i > Len(qs) THEN tree
    ELSE Strict(SetAt(tree, qs[i],
                      RetagBelow(RsidToDel(At(tree, qs[i]), rsid), "w:t", "w:delText")),
                LAMBDA t : RevertRuns(t, qs, i + 1, rsid))

RECURSIVE RevertInsLoop(_, _, _, _)
\* "for ins_elem in ins_elements"; the paths of the insertions still to be
\* processed follow the elements as they move below the new wrapper
RevertInsLoop(tree, qs, i, ctx) ==
    IF i > Len(qs) THEN tree
    ELSE LET q == qs[i]
             runs == ByTagUnder(tree, q, "w:r")
         IN IF runs = <<>> THEN RevertInsLoop(tree, qs, i + 1, ctx)
            ELSE LET t1 == RevertRuns(tree, runs, 1, ctx.rsid)
                     ins == At(t1, q)
                     t2 == SetAt(t1, q, [ins EXCEPT !.kids = <<Elem("w:del", NoAttrs, ins.kids)>>])
                     t3 == inject_attributes_to_nodes(t2, <<q \o <<1>>>>, 1, ctx)
                     qs2 == [j \in 1..Len(qs) |->
                               IF j > i /\ IsPrefix(q, qs[j]) /\ qs[j] # q
                               THEN q \o <<1>> \o SubSeq(qs[j], Len(q) + 1, Len(qs[j]))
                               ELSE qs[j]]
                 IN Strict(t3, LAMBDA t : RevertInsLoop(t, qs2, i + 1, ctx))

revert_insertion(tree, p, ctx) ==
    LET ins_elements == IF At(tree, p).tag = "w:ins" THEN <<p>>
                        ELSE ByTagUnder(tree, p, "w:ins")
    IN IF ins_elements = <<>> THEN Raised(tree)
       ELSE Returned(RevertInsLoop(tree, ins_elements, 1, ctx))

\* ------------------------------------------------------------------------
\* DocxXMLEditor.revert_deletion
\* ------------------------------------------------------------------------
\* "new_run = run.cloneNode(True)", w:delText -> w:t, w:rsidDel -> w:rsidR
RestoredRun(run, rsid) == RsidToIns(RetagBelow(run, "w:delText", "w:t"), rsid)

RECURSIVE RevertDelLoop(_, _, _, _)
\* "for del_elem in del_elements"; a new sibling shifts the later children
\* of the same parent by one
RevertDelLoop(tree, qs, i, ctx) ==
    IF i > Len(qs) THEN tree
    ELSE LET q == qs[i]
             runs == ByTagUnder(tree, q, "w:r")
         IN IF runs = <<>> THEN RevertDelLoop(tree, qs, i + 1, ctx)
            ELSE LET ins_elem == Elem("w:ins", NoAttrs,
                                      [j \in 1..Len(runs) |-> RestoredRun(At(tree, runs[j]), ctx.rsid)])
                     t1 == insert_after(tree, q, <<Reparse(ins_elem)>>, ctx)
                     par == ParentPath(q)
                     qs2 == [j \in 1..Len(qs) |->
                               IF /\ j > i /\ Len(qs[j]) >= Len(q) /\ IsPrefix(par, qs[j])
                                  /\ qs[j][Len(q)] > q[Len(q)]
                               THEN [qs[j] EXCEPT ![Len(q)] = @ + 1]
                               ELSE qs[j]]
                 IN Strict(t1, LAMBDA t : RevertDelLoop(t, qs2, i + 1, ctx))

revert_deletion(tree, p, ctx) ==
    LET del_elements == IF At(tree, p).tag = "w:del" THEN <<p>>
                        ELSE ByTagUnder(tree, p, "w:del")
    IN IF del_elements = <<>> THEN Raised(tree)
       ELSE Returned(RevertDelLoop(tree, del_elements, 1, ctx))

\* what revert_deletion returns when it does not raise, as paths in the tree
\* it leaves: [elem, created_insertion] for a single w:del that holds a run,
\* [elem] otherwise
revert_deletion_nodes(tree, p) ==
    IF At(tree, p).tag = "w:del" /\ ByTagUnder(tree, p, "w:r") # <<>>
    THEN <<p, [p EXCEPT ![Len(p)] = @ + 1]>>
    ELSE <<p>>

\* ------------------------------------------------------------------------
\* Document bodies the tracked-change sessions start from
\* ------------------------------------------------------------------------
SessionAuthors == {"Claude", "Bob"}

PriorAuthors == {"Claude", "Ann"}

T(txt) == Leaf("w:t", NoAttrs, txt)

TSp(txt) == Leaf("w:t", "xml:space" :> "preserve", txt)

DT(txt) == Leaf("w:delText", NoAttrs, txt)

RunR(kids) == Elem("w:r", "w:rsidR" :> "00A1", kids)

RunD(kids) == Elem("w:r", "w:rsidDel" :> "00A2", kids)

Region(tag, id, who, kids) ==
    Elem(tag, ("w:id" :> id) @@ ("w:author" :> who) @@ ("w:date" :> "2024-05-01T00:00:00Z"), kids)

RPr == Elem("w:rPr", NoAttrs, <<Elem("w:b", NoAttrs, <<>>)>>)

NumPPr(kids) == Elem("w:pPr", NoAttrs, <<Elem("w:numPr", NoAttrs, <<>>)>> \o kids)

Para(kids) == Elem("w:p", NoAttrs, kids)

\* a text box: paragraphs of their own inside the run that anchors it
TextBox(paras) == Elem("w:pict", NoAttrs, <<Elem("w:txbxContent", NoAttrs, paras)>>)

\* the children of one paragraph; id is the w:id its region (if any) carries
ParagraphKids(id) ==
    {<<RunR(<<T(<<"a">>)>>)>>,
     <<Elem("w:r", NoAttrs, <<RPr, TSp(<<"a", " ">>)>>), RunR(<<T(<<"b">>)>>)>>,
     <<NumPPr(<<>>), RunR(<<T(<<"a">>)>>)>>,
     <<NumPPr(<<RPr>>), RunR(<<T(<<"a">>)>>)>>}
    \cup {<<RunR(<<T(<<"a">>)>>), Region("w:ins", id, who, <<RunR(<<T(<<"b">>)>>)>>)>> :
              who \in PriorAuthors}
    \cup {<<Region("w:del", id, who, <<RunD(<<DT(<<"b">>)>>)>>), RunR(<<T(<<"a">>)>>)>> :
              who \in PriorAuthors}
    \cup {<<Region("w:ins", id, "Ann",
                   <<Region("w:del", "7", who, <<RunD(<<DT(<<"a">>)>>)>>)>>)>> :
              who \in PriorAuthors}
    \cup {<<Region("w:ins", id, "Ann",
                   <<RunR(<<T(<<"a">>)>>),
                     Region("w:ins", "7", "Ann", <<RunR(<<T(<<"b">>)>>)>>)>>)>>}
    \cup {<<RunR(<<TextBox(<<Para(<<Region("w:ins", id, "Ann",
                                           <<RunR(<<T(<<"b">>)>>)>>)>>)>>)>>)>>}

Body(kids, second) ==
    Elem("w:body", NoAttrs, <<Para(kids), second, Elem("w:sectPr", NoAttrs, <<>>)>>)

\* children of a paragraph no region has touched: a run that anchors a text
\* box, and a text leaf with leading whitespace and no xml:space attribute
UntouchedKids ==
    {<<RunR(<<TextBox(<<Para(<<RunR(<<T(<<"a">>)>>)>>)>>)>>)>>,
     <<RunR(<<T(<<" ", "a">>)>>), RunR(<<T(<<"b">>)>>)>>}

\* every first paragraph before a plain second one; the first paragraphs
\* without a region also before a second one that "Claude" inserted
InitBodies ==
    {Body(k, Para(<<RunR(<<T(<<"b">>)>>)>>)) : k \in ParagraphKids("1") \cup UntouchedKids}
    \cup {Body(k, Para(<<Region("w:ins", "2", "Claude", <<RunR(<<T(<<"a">>)>>)>>)>>)) :
              k \in {c \in ParagraphKids("1") :
                        \A i \in 1..Len(c) : c[i].tag \notin {"w:ins", "w:del"}}}

\* ------------------------------------------------------------------------
\* The tracked-change session on word/document.xml
\* ------------------------------------------------------------------------
Rsid == "00C0FFEE"

Now == "2025-01-01T00:00:00Z"

Ctx == [rsid |-> Rsid, author |-> author, initials |-> "C", ts |-> Now, hex |-> "0000002A"]

Texts == {<<>>, <<"b">>}

\* the element at q lies in no tracked-change region
OutsideRegions(tree, q) ==
    \A k \in 0..Len(q) : At(tree, SubSeq(q, 1, k)).tag \notin {"w:ins", "w:del"}

\* tags whose name ends in ":t"
TextTags == {"w:t"}

RECURSIVE condense_xml(_)
\* whitespace-only character data is dropped from every element whose tag
\* does not end in ":t"
condense_xml(n) ==
    [n EXCEPT !.text = IF n.tag \in TextTags \/ \E i \in 1..Len(n.text) : n.text[i] \notin Whitespace
                       THEN @ ELSE <<>>,
              !.kids = [i \in 1..Len(n.kids) |-> condense_xml(n.kids[i])]]

\* the working tree is the body as it is in the directory, the baseline the
\* body as pack_document wrote it into original.docx
InitTree ==
    /\ \E body \in InitBodies : dom = body /\ base = condense_xml(body)
    /\ author \in SessionAuthors
    /\ nops = 0
    /\ last = [op |-> "init", raised |-> FALSE]
    /\ direct = FALSE
    /\ mem = Idle /\ disk = Idle /\ sess = Idle /\ hist = Idle
    /\ xsd = Idle /\ chk = Idle

\* the elements a transform is called on
TargetTags == {"w:body", "w:p", "w:r", "w:ins", "w:del", "w:sectPr"}

Targets(tree) == {p \in SeqToSet(AllPaths(tree)) : At(tree, p).tag \in TargetTags}

Call(op, r) ==
    /\ nops < MaxOps
    /\ nops' = nops + 1
    /\ dom' = r.dom
    /\ last' = [op |-> op, raised |-> r.raised]
    /\ UNCHANGED <<base, author, direct, sessionVars, xsd, chk>>

SuggestDeletion ==
    \E p \in Targets(dom) : Call("suggest_deletion", suggest_deletion(dom, p, Ctx))

RevertInsertion ==
    \E p \in Targets(dom) : Call("revert_insertion", revert_insertion(dom, p, Ctx))

RevertDeletion ==
    \E p \in Targets(dom) : Call("revert_deletion", revert_deletion(dom, p, Ctx))

\* insert_after(run, "<w:ins><w:r><w:t>..</w:t></w:r></w:ins>")
InsertTracked ==
    \E p \in SeqToSet(ByTagInDoc(dom, "w:r")), txt \in Texts \ {<<>>} :
        Call("insert_after",
             Returned(insert_after(dom, p,
                 <<Elem("w:ins", NoAttrs, <<Elem("w:r", NoAttrs, <<T(txt)>>)>>)>>, Ctx)))

\* the text of a w:t outside every region is overwritten through editor.dom
DirectEdit ==
    \E p \in SeqToSet(ByTagInDoc(dom, "w:t")), txt \in Texts :
        /\ OutsideRegions(dom, p)
        /\ txt # At(dom, p).text
        /\ nops < MaxOps
        /\ nops' = nops + 1
        /\ dom' = SetAt(dom, p, [At(dom, p) EXCEPT !.text = txt])
        /\ last' = [op |-> "direct_edit", raised |-> FALSE]
        /\ direct' = TRUE
        /\ UNCHANGED <<base, author, sessionVars, xsd, chk>>

NextTree == SuggestDeletion \/ RevertInsertion \/ RevertDeletion \/ InsertTracked \/ DirectEdit

SpecTree == InitTree /\ [][NextTree]_vars

\* ------------------------------------------------------------------------
\* RedliningValidator
\* ------------------------------------------------------------------------
\* the author name the validator looks for
ValidatorAuthor == "Claude"

IsClaude(n, tag) ==
    n.tag = tag /\ HasAttr(n, "w:author") /\ n.attrs["w:author"] = ValidatorAuthor

RECURSIVE RemoveClaudeIns(_)
\* first loop of _remove_claude_tracked_changes: every parent drops its
\* w:ins children of that author
RemoveClaudeIns(n) ==
    LET kept == SelectSeq(n.kids, LAMBDA c : ~IsClaude(c, "w:ins"))
    IN [n EXCEPT !.kids = [i \in 1..Len(kept) |-> RemoveClaudeIns(kept[i])]]

RECURSIVE UnwrapKids(_, _)
RECURSIVE UnwrapClaudeDel(_)
\* second loop: a w:del child of that author has every w:delText below it
\* turned into w:t and is replaced by its children; the iteration then goes on
\* into the children the parent has now
UnwrapKids(ks, i) ==
    IF i > Len(ks) THEN <<>>
    ELSE (IF IsClaude(ks[i], "w:del") THEN Retag(ks[i], "w:delText", "w:t").kids ELSE <<ks[i]>>)
         \o UnwrapKids(ks, i + 1)
UnwrapClaudeDel(n) ==
    LET now == UnwrapKids(n.kids, 1)
    IN [n EXCEPT !.kids = [i \in 1..Len(now) |-> UnwrapClaudeDel(now[i])]]

\* RedliningValidator._remove_claude_tracked_changes
remove_claude_tracked_changes(root) == UnwrapClaudeDel(RemoveClaudeIns(root))

RECURSIVE ConcatTexts(_, _, _)
\* "".join(t.text for the w:t at paths qs[i..] if t.text)
ConcatTexts(tree, qs, i) ==
    IF i > Len(qs) THEN <<>> ELSE At(tree, qs[i]).text \o ConcatTexts(tree, qs, i + 1)

RECURSIVE JoinParagraphs(_, _, _)
\* "\n".join of the non-empty paragraph texts of the w:p at paths ps[i..]
JoinParagraphs(tree, ps, i) ==
    IF i > Len(ps) THEN <<>>
    ELSE LET txt == ConcatTexts(tree, ByTagUnder(tree, ps[i], "w:t"), 1)
             rest == JoinParagraphs(tree, ps, i + 1)
         IN IF txt = <<>> THEN rest
            ELSE IF rest = <<>> THEN txt ELSE txt \o <<"\n">> \o rest

\* RedliningValidator._extract_text_content
extract_text_content(root) == JoinParagraphs(root, ByTagUnder(root, <<>>, "w:p"), 1)

\* a variant whose early exit needs only one of the two lists to be empty
NoClaudeChanges_either(root) ==
    LET dels == SelectSeq(ByTagUnder(root, <<>>, "w:del"), LAMBDA q : IsClaude(At(root, q), "w:del"))
        inss == SelectSeq(ByTagUnder(root, <<>>, "w:ins"), LAMBDA q : IsClaude(At(root, q), "w:ins"))
    IN dels = <<>> \/ inss = <<>>

\* "only if Claude's tracked changes are used is the check needed"
NoClaudeChanges(root) ==
    LET dels == SelectSeq(ByTagUnder(root, <<>>, "w:del"), LAMBDA q : IsClaude(At(root, q), "w:del"))
        inss == SelectSeq(ByTagUnder(root, <<>>, "w:ins"), LAMBDA q : IsClaude(At(root, q), "w:ins"))
    IN dels = <<>> /\ inss = <<>>

\* RedliningValidator.validate on the saved working copy and the baseline
RedliningValidate(modified, original) ==
    IF NoClaudeChanges(modified) THEN TRUE
    ELSE extract_text_content(remove_claude_tracked_changes(modified))
         = extract_text_content(remove_claude_tracked_changes(original))

\* XMLEditor.save followed by the validator's parse of the file
SavedXml(tree) == Reparse(tree)

\* ------------------------------------------------------------------------
\* Properties of the tracked-change session (SpecTree)
\* ------------------------------------------------------------------------
\* some element other than the root is a region attributed to who
HasRegionBy(tree, who) ==
    \E q \in SeqToSet(DescPaths(tree)) :
        /\ At(tree, q).tag \in {"w:ins", "w:del"}
        /\ HasAttr(At(tree, q), "w:author")
        /\ At(tree, q).attrs["w:author"] = who

RECURSIVE VisibleText(_, _, _)
RECURSIVE VisibleKids(_, _, _, _)
\* the text of the subtree n as it read before who's edits: who's insertions
\* are not there, and the deleted text below who's deletions is (restored)
VisibleText(n, who, restored) ==
    IF n.tag = "w:ins" /\ HasAttr(n, "w:author") /\ n.attrs["w:author"] = who THEN <<>>
    ELSE IF n.tag = "w:t" \/ (n.tag = "w:delText" /\ restored) THEN n.text
    ELSE VisibleKids(n, who,
             restored \/ (n.tag = "w:del" /\ HasAttr(n, "w:author") /\ n.attrs["w:author"] = who), 1)
VisibleKids(n, who, restored, i) ==
    IF i > Len(n.kids) THEN <<>>
    ELSE VisibleText(n.kids[i], who, restored) \o VisibleKids(n, who, restored, i + 1)

RECURSIVE JoinLines(_)
JoinLines(ls) ==
    IF ls = <<>> THEN <<>>
    ELSE IF Len(ls) = 1 THEN ls[1] ELSE ls[1] \o <<"\n">> \o JoinLines(Tail(ls))

\* the non-empty paragraph texts before who's edits, one line per paragraph
\* (the paragraphs of a body are its w:p children)
Reconstructed(body, who) ==
    LET ps == SelectSeq(body.kids, LAMBDA c : c.tag = "w:p")
        lines == [i \in 1..Len(ps) |-> VisibleText(ps[i], who, FALSE)]
    IN JoinLines(SelectSeq(lines, LAMBDA l : l # <<>>))

RECURSIVE PlainText(_)
RECURSIVE PlainKids(_, _)
\* the text of the w:t leaves of n that lie in no tracked-change region
PlainText(n) ==
    IF n.tag \in {"w:ins", "w:del"} THEN <<>>
    ELSE IF n.tag = "w:t" THEN n.text ELSE PlainKids(n, 1)
PlainKids(n, i) ==
    IF i > Len(n.kids) THEN <<>> ELSE PlainText(n.kids[i]) \o PlainKids(n, i + 1)

PlainParagraphs(body) == [i \in 1..Len(body.kids) |-> PlainText(body.kids[i])]

\* C2 as stated: whenever text outside all tracked-change regions was edited
\* directly and the paragraph text of the working copy differs from the
\* baseline's, RedliningValidator.validate returns False
C2_AnyDirectEditFails ==
    (direct /\ PlainParagraphs(dom) # PlainParagraphs(base))
        => ~RedliningValidate(SavedXml(dom), base)

\* C2 amended: when the working copy holds at least one region attributed to
\* "Claude" and the text that remains after taking Claude's insertions out and
\* putting Claude's deletions back differs between working copy and baseline
\* (non-empty paragraph texts joined by newlines), validate returns False
C2_DivergenceFailsWhenClaudeRegions ==
    (/\ HasRegionBy(SavedXml(dom), "Claude")
     /\ Reconstructed(SavedXml(dom), "Claude") # Reconstructed(base, "Claude"))
        => ~RedliningValidate(SavedXml(dom), base)

C2_Witness ==
    /\ direct
    /\ last.op = "direct_edit"
    /\ HasRegionBy(dom, "Claude")
    /\ PlainParagraphs(dom) # PlainParagraphs(base)
    /\ Reconstructed(SavedXml(dom), "Claude") # Reconstructed(base, "Claude")
    /\ ~RedliningValidate(SavedXml(dom), base)

\* C3: a working copy obtained from the baseline only through tracked changes
\* of the session's author passes the redlining check
C3_TrackedChangesPass == ~direct => RedliningValidate(SavedXml(dom), base)

\* C10: suggest_deletion on a run that holds a w:delText, on a paragraph that
\* holds a w:ins or w:del, or on an element that is neither a run nor a
\* paragraph raises and returns with the tree exactly as it was
FailCase(tree, p) ==
    \/ At(tree, p).tag = "w:r" /\ ByTagUnder(tree, p, "w:delText") # <<>>
    \/ At(tree, p).tag = "w:p"
          /\ (ByTagUnder(tree, p, "w:ins") # <<>> \/ ByTagUnder(tree, p, "w:del") # <<>>)
    \/ At(tree, p).tag \notin {"w:r", "w:p"}

C10_SuggestDeletionAtomic ==
    \A p \in Targets(dom) :
        FailCase(dom, p) =>
            /\ suggest_deletion(dom, p, Ctx).raised
            /\ suggest_deletion(dom, p, Ctx).dom = dom

C10_Witness ==
    /\ last.op = "suggest_deletion"
    /\ last.raised
    /\ \E p \in Targets(dom) : At(dom, p).tag = "w:p" /\ FailCase(dom, p)
    /\ \E p \in Targets(dom) : At(dom, p).tag = "w:r" /\ FailCase(dom, p)

\* the element at p holds no tracked change and lies in none
Untracked(tree, p) ==
    /\ OutsideRegions(tree, p)
    /\ \A tag \in {"w:ins", "w:del", "w:delText"} : ByTagUnder(tree, p, tag) = <<>>

\* the paragraph the element at p belongs to: the nearest w:p at or above p
EnclosingParagraph(tree, p) ==
    LET ks == {k \in 0..Len(p) : At(tree, SubSeq(p, 1, k)).tag = "w:p"}
    IN SubSeq(p, 1, CHOOSE k \in ks : \A j \in ks : j <= k)

\* the w:t leaves below the element at q in document order: text and xml:space
TextLeaves(tree, q) ==
    LET ts == ByTagUnder(tree, q, "w:t")
    IN [i \in 1..Len(ts) |->
           [text |-> At(tree, ts[i]).text,
            space |-> IF HasAttr(At(tree, ts[i]), "xml:space")
                      THEN At(tree, ts[i]).attrs["xml:space"] ELSE ""]]

\* the region suggest_deletion made for the element that was at p: the w:del
\* now at p (run) or the w:del appended as the paragraph's last child
ProducedRegion(tree, p) ==
    IF At(tree, p).tag = "w:del" THEN p ELSE p \o <<Len(At(tree, p).kids)>>

\* suggest_deletion on the element at p, then revert_deletion on its region
DeleteThenRevert(tree, p, ctx) ==
    Strict(suggest_deletion(tree, p, ctx).dom,
           LAMBDA t : revert_deletion(t, ProducedRegion(t, p), ctx))

\* C11: for every run or paragraph without tracked changes, suggest_deletion
\* followed by revert_deletion on the region it produced leaves the w:t
\* leaves of the enclosing paragraph as they were: the same texts in the same
\* order with the same xml:space attributes
C11_TextRoundTrip ==
    \A p \in Targets(dom) :
        (At(dom, p).tag \in {"w:r", "w:p"} /\ Untracked(dom, p)) =>
            /\ ~suggest_deletion(dom, p, Ctx).raised
            /\ ~DeleteThenRevert(dom, p, Ctx).raised
            /\ TextLeaves(DeleteThenRevert(dom, p, Ctx).dom, EnclosingParagraph(dom, p))
                   = TextLeaves(dom, EnclosingParagraph(dom, p))

\* the insertion regions revert_insertion on the element at p works on
InsertionsInScope(tree, p) ==
    IF At(tree, p).tag = "w:ins" THEN {p} ELSE SeqToSet(ByTagUnder(tree, p, "w:ins"))

\* those of them that hold at least one run
InsertionsWithRuns(tree, p) ==
    {q \in InsertionsInScope(tree, p) : ByTagUnder(tree, q, "w:r") # <<>>}

RECURSIVE Rehomed(_, _, _)
\* where the element that was at q[k..] is once every region of wrapped has
\* taken a wrapper as its only child
Rehomed(wrapped, q, k) ==
    IF k > Len(q) THEN <<>>
    ELSE (IF SubSeq(q, 1, k - 1) \in wrapped THEN <<1>> ELSE <<>>)
         \o <<q[k]>> \o Rehomed(wrapped, q, k + 1)

RECURSIVE Converted(_, _, _, _, _)
\* the element at r of new is the element that was at q of old, turned into
\* deleted content: a w:t is a w:delText with the same text and attributes, a
\* run's w:rsidR is its w:rsidDel, a region of wrapped holds one w:del with its
\* former children, and every other element holds its former children in order
Converted(old, new, q, r, wrapped) ==
    LET a == At(old, q)
        b == At(new, r)
        inner == IF q \in wrapped THEN r \o <<1>> ELSE r
    IN /\ b.tag = (IF a.tag = "w:t" THEN "w:delText" ELSE a.tag)
       /\ b.text = a.text
       /\ a.tag = "w:t" => b.attrs = a.attrs
       /\ (a.tag = "w:r" /\ HasAttr(a, "w:rsidR")) =>
              /\ HasAttr(b, "w:rsidDel")
              /\ b.attrs["w:rsidDel"] = a.attrs["w:rsidR"]
              /\ ~HasAttr(b, "w:rsidR")
       /\ q \in wrapped => (Len(b.kids) = 1 /\ b.kids[1].tag = "w:del")
       /\ Len(At(new, inner).kids) = Len(a.kids)
       /\ \A i \in 1..Len(a.kids) : Converted(old, new, q \o <<i>>, inner \o <<i>>, wrapped)

\* C12: revert_insertion on an element without a w:ins in scope raises and
\* leaves the tree as it was; otherwise every insertion region in scope that
\* holds a run is still in its place with the attributes it had and has one
\* child, a w:del holding its former children in order, with every w:t below
\* turned into a w:delText of the same text and attributes and every run's
\* w:rsidR turned into w:rsidDel
C12_RevertInsertionWraps ==
    \A p \in Targets(dom) :
        IF InsertionsInScope(dom, p) = {}
        THEN /\ revert_insertion(dom, p, Ctx).raised
             /\ revert_insertion(dom, p, Ctx).dom = dom
        ELSE /\ ~revert_insertion(dom, p, Ctx).raised
             /\ \A q \in InsertionsWithRuns(dom, p) :
                    /\ At(revert_insertion(dom, p, Ctx).dom,
                          Rehomed(InsertionsWithRuns(dom, p), q, 1)).attrs = At(dom, q).attrs
                    /\ Converted(dom, revert_insertion(dom, p, Ctx).dom, q,
                                 Rehomed(InsertionsWithRuns(dom, p), q, 1),
                                 InsertionsWithRuns(dom, p))

\* the deletion regions revert_deletion on the element at p works on
DeletionsInScope(tree, p) ==
    IF At(tree, p).tag = "w:del" THEN {p} ELSE SeqToSet(ByTagUnder(tree, p, "w:del"))

\* those of them that hold at least one run
DeletionsWithRuns(tree, p) ==
    {q \in DeletionsInScope(tree, p) : ByTagUnder(tree, q, "w:r") # <<>>}

\* where the element that was at x is once every element of after has been
\* given one new following sibling
AfterInsertions(after, x) ==
    [k \in 1..Len(x) |->
        x[k] + Cardinality({w \in after : /\ Len(w) = k
                                          /\ SubSeq(w, 1, k - 1) = SubSeq(x, 1, k - 1)
                                          /\ w[k] < x[k]})]

RECURSIVE SameContentRestored(_, _)
\* b is a copy of a with every w:delText turned into a w:t
SameContentRestored(a, b) ==
    /\ b.tag = (IF a.tag = "w:delText" THEN "w:t" ELSE a.tag)
    /\ b.text = a.text
    /\ Len(b.kids) = Len(a.kids)
    /\ \A i \in 1..Len(a.kids) : SameContentRestored(a.kids[i], b.kids[i])

\* b is the restored clone of the deleted run a
RestoredClone(a, b) ==
    /\ SameContentRestored(a, b)
    /\ HasAttr(a, "w:rsidDel") =>
           /\ HasAttr(b, "w:rsidR")
           /\ b.attrs["w:rsidR"] = a.attrs["w:rsidDel"]
           /\ ~HasAttr(b, "w:rsidDel")

\* the three parts of what revert_deletion on the element at p is to leave:
\* every deletion region in scope is the element it was
DeletionsUntouched(old, new, p) ==
    \A q \in DeletionsInScope(old, p) :
        At(new, AfterInsertions(DeletionsWithRuns(old, p), q)) = At(old, q)

\* every deletion region with a run is followed by a w:ins of restored clones
InsertionsFollow(old, new, p) ==
    \A q \in DeletionsWithRuns(old, p) :
        LET s == AfterInsertions(DeletionsWithRuns(old, p), q)
            ins == At(new, [s EXCEPT ![Len(s)] = @ + 1])
            runs == ByTagUnder(old, q, "w:r")
        IN /\ ins.tag = "w:ins"
           /\ Len(ins.kids) = Len(runs)
           /\ \A j \in 1..Len(runs) : RestoredClone(At(old, runs[j]), ins.kids[j])

\* every element the tree had is in its place with the tag, attributes and
\* text it had, and has no children but its own and the new insertions
NothingElseChanges(old, new, p) ==
    \A x \in SeqToSet(AllPaths(old)) :
        LET o == At(old, x)
            n == At(new, AfterInsertions(DeletionsWithRuns(old, p), x))
        IN /\ n.tag = o.tag
           /\ n.attrs = o.attrs
           /\ n.text = o.text
           /\ Len(n.kids) = Len(o.kids)
                 + Cardinality({w \in DeletionsWithRuns(old, p) : ParentPath(w) = x})

\* C13: revert_deletion leaves every deletion region in scope untouched, puts
\* after each one that holds a run a new w:ins of its restored runs, changes
\* nothing else in the tree, and returns [the w:del, the new w:ins] when it
\* was called on a single w:del that holds a run
C13_RevertDeletionFrame ==
    \A p \in Targets(dom) :
        DeletionsInScope(dom, p) # {} =>
            LET r == revert_deletion(dom, p, Ctx)
                nodes == revert_deletion_nodes(dom, p)
            IN /\ ~r.raised
               /\ DeletionsUntouched(dom, r.dom, p)
               /\ InsertionsFollow(dom, r.dom, p)
               /\ NothingElseChanges(dom, r.dom, p)
               /\ (At(dom, p).tag = "w:del" /\ ByTagUnder(dom, p, "w:r") # <<>>) =>
                      /\ Len(nodes) = 2
                      /\ At(r.dom, nodes[1]) = At(dom, p)
                      /\ At(r.dom, nodes[2]).tag = "w:ins"
                      /\ ParentPath(nodes[2]) = ParentPath(p)
                      /\ nodes[2][Len(p)] = p[Len(p)] + 1

\* the w:ins and w:del elements of the part that carry a w:id
RegionsWithId(tree) ==
    {q \in SeqToSet(AllPaths(tree)) :
        At(tree, q).tag \in {"w:ins", "w:del"} /\ HasAttr(At(tree, q), "w:id")}

\* C14: the part starts with numeric, pairwise distinct w:ins / w:del ids;
\* after any sequence of fragment insertions without explicit w:id and of
\* tracked-change transforms no two w:ins / w:del elements of the part carry
\* the same w:id
C14_ChangeIdsUnique ==
    \A q1, q2 \in RegionsWithId(dom) :
        q1 # q2 => At(dom, q1).attrs["w:id"] # At(dom, q2).attrs["w:id"]

\* ------------------------------------------------------------------------
\* Fragment insertion through the DocxXMLEditor: replace_node, insert_before,
\* insert_after, append_to with fragments that carry attributes of their own
\* ------------------------------------------------------------------------
MaxEdits == 1

Carried == "2020-02-02T00:00:00Z"

\* the parsed elements of the fragments handed to the editor
Fragments ==
    {<<Elem("w:ins", NoAttrs, <<Elem("w:r", NoAttrs, <<T(<<" ", "x">>)>>)>>)>>,
     <<Elem("w:ins", ("w:id" :> "5") @@ ("w:author" :> "Ann"),
            <<Elem("w:r", "w:rsidR" :> "00B1",
                   <<Leaf("w:t", "xml:space" :> "default", <<" ", "x">>)>>)>>)>>,
     <<Elem("w:p", ("w:rsidR" :> "00B1") @@ ("w14:paraId" :> "11111111"),
            <<Elem("w:r", NoAttrs, <<T(<<"x">>)>>)>>)>>,
     <<Elem("w:del", ("w:date" :> Carried) @@ ("w16du:dateUtc" :> Carried),
            <<Elem("w:r", "w:rsidDel" :> "00B2", <<DT(<<"x">>)>>)>>),
       Elem("w:ins", "w:date" :> Carried, <<Elem("w:r", NoAttrs, <<T(<<"y">>)>>)>>)>>,
     <<Elem("w:r", "w:rsidDel" :> "00B2", <<T(<<"x">>)>>)>>,
     <<Elem("w:comment", "w:initials" :> "A", <<Para(<<RunR(<<T(<<"x">>)>>)>>)>>),
       Elem("w16cex:commentExtensible", "w16cex:dateUtc" :> Carried, <<>>)>>}

InjectBodies ==
    {Body(<<RunR(<<T(<<"a">>)>>)>>, Para(<<RunR(<<T(<<"b">>)>>)>>)),
     Body(<<Region("w:del", "1", "Ann", <<RunD(<<DT(<<"b">>)>>)>>), RunR(<<T(<<"a">>)>>)>>,
          Para(<<RunR(<<T(<<"b">>)>>)>>))}

InitInject ==
    /\ dom \in InjectBodies
    /\ base = Idle
    /\ author = "Claude"
    /\ nops = 0
    /\ last = [op |-> "init", frag |-> <<>>, at |-> <<>>]
    /\ direct = FALSE
    /\ mem = Idle /\ disk = Idle /\ sess = Idle /\ hist = Idle
    /\ xsd = Idle /\ chk = Idle

\* the elements a fragment is placed at
EditTargets(tree) ==
    {p \in SeqToSet(DescPaths(tree)) : At(tree, p).tag \in {"w:p", "w:r", "w:del"}}

ReplaceNode ==
    \E p \in EditTargets(dom), ns \in Fragments :
        /\ nops < MaxEdits
        /\ nops' = nops + 1
        /\ dom' = replace_node(dom, p, ns, Ctx)
        /\ last' = [op |-> "replace_node", frag |-> ns,
                    at |-> NewPaths(ParentPath(p), p[Len(p)], Len(ns))]
        /\ UNCHANGED <<base, author, direct, sessionVars, xsd, chk>>

InsertBefore ==
    \E p \in EditTargets(dom), ns \in Fragments :
        /\ nops < MaxEdits
        /\ nops' = nops + 1
        /\ dom' = insert_before(dom, p, ns, Ctx)
        /\ last' = [op |-> "insert_before", frag |-> ns,
                    at |-> NewPaths(ParentPath(p), p[Len(p)], Len(ns))]
        /\ UNCHANGED <<base, author, direct, sessionVars, xsd, chk>>

InsertAfter ==
    \E p \in EditTargets(dom), ns \in Fragments :
        /\ nops < MaxEdits
        /\ nops' = nops + 1
        /\ dom' = insert_after(dom, p, ns, Ctx)
        /\ last' = [op |-> "insert_after", frag |-> ns,
                    at |-> NewPaths(ParentPath(p), p[Len(p)] + 1, Len(ns))]
        /\ UNCHANGED <<base, author, direct, sessionVars, xsd, chk>>

AppendTo ==
    \E p \in EditTargets(dom), ns \in Fragments :
        /\ nops < MaxEdits
        /\ nops' = nops + 1
        /\ dom' = append_to(dom, p, ns, Ctx)
        /\ last' = [op |-> "append_to", frag |-> ns,
                    at |-> NewPaths(p, Len(At(dom, p).kids) + 1, Len(ns))]
        /\ UNCHANGED <<base, author, direct, sessionVars, xsd, chk>>

NextInject == ReplaceNode \/ InsertBefore \/ InsertAfter \/ AppendTo

SpecInject == InitInject /\ [][NextInject]_vars

\* the editor at a later moment: another timestamp, other random ids
Later ==
    [rsid |-> Rsid, author |-> author, initials |-> "C",
     ts |-> "2025-06-30T12:00:00Z", hex |-> "0000002B"]

RECURSIVE KeepsCarried(_, _)
\* every attribute the fragment element f carried is on n with the same
\* value, and so for the descendants
KeepsCarried(f, n) ==
    /\ \A a \in DOMAIN f.attrs : HasAttr(n, a) /\ n.attrs[a] = f.attrs[a]
    /\ Len(n.kids) = Len(f.kids)
    /\ \A i \in 1..Len(f.kids) : KeepsCarried(f.kids[i], n.kids[i])

\* C15: after a fragment was inserted through replace_node, insert_before,
\* insert_after or append_to, every attribute the fragment carried has the
\* value it carried, and a second injection over the inserted nodes leaves
\* the tree as it is
C15_InjectionNeverOverwrites ==
    last.op # "init" =>
        /\ \A k \in 1..Len(last.frag) : KeepsCarried(last.frag[k], At(dom, last.at[k]))
        /\ inject_attributes_to_nodes(dom, last.at, 1, Later) = dom

RECURSIVE AttrCount(_)
RECURSIVE AttrCountKids(_, _)
\* the number of attributes on n and its descendants
AttrCount(n) == Cardinality(DOMAIN n.attrs) + AttrCountKids(n, 1)
AttrCountKids(n, i) ==
    IF i > Len(n.kids) THEN 0 ELSE AttrCount(n.kids[i]) + AttrCountKids(n, i + 1)

\* a fragment whose region carried a date of its own has replaced a node,
\* and the injection added attributes beside the carried ones
C15_Witness ==
    /\ last.op = "replace_node"
    /\ \E k \in 1..Len(last.frag) :
          /\ HasAttr(last.frag[k], "w:date")
          /\ last.frag[k].attrs["w:date"] # Ctx.ts
          /\ AttrCount(At(dom, last.at[k])) > AttrCount(last.frag[k])

\* ------------------------------------------------------------------------
\* XMLEditor.get_node
\*
\* The line of the (line, column) the parser stored on an element is kept
\* under the name parse_position beside the element's XML attributes; an
\* element inserted after the parse has none.  An optional argument is <<>>
\* (None) or <<value>>.  A line filter is [range, start, stop]: an int n is
\* [range |-> FALSE, start |-> n, stop |-> n], range(a, b) is
\* [range |-> TRUE, start |-> a, stop |-> b].
\* ------------------------------------------------------------------------
None == <<>>

Some(v) == <<v>>

RECURSIVE html_unescape(_)
\* html.unescape on a sequence of characters (the entities &amp; &lt; &gt;)
html_unescape(s) ==
    IF s = <<>> THEN <<>>
    ELSE LET ent == CASE StartsWith(s, AMP) -> <<"&", Len(AMP)>>
                      [] StartsWith(s, LT) -> <<"<", Len(LT)>>
                      [] StartsWith(s, GT) -> <<">", Len(GT)>>
                      [] OTHER -> <<Head(s), 1>>
         IN <<ent[1]>> \o html_unescape(SubSeq(s, ent[2] + 1, Len(s)))

\* "needle in haystack" on sequences of characters
IsSubstring(needle, hay) ==
    \E i \in 0..(Len(hay) - Len(needle)) : SubSeq(hay, i + 1, i + Len(needle)) = needle

RECURSIVE get_element_text(_)
RECURSIVE KidsText(_, _)
\* XMLEditor._get_element_text: the text nodes below the element joined, a
\* text node of nothing but whitespace left out
get_element_text(n) ==
    (IF \E i \in 1..Len(n.text) : n.text[i] \notin Whitespace THEN n.text ELSE <<>>)
        \o KidsText(n, 1)
KidsText(n, i) ==
    IF i > Len(n.kids) THEN <<>> ELSE get_element_text(n.kids[i]) \o KidsText(n, i + 1)

\* the three filters of the loop body, for the element e
LineFilterPasses(e, line_number) ==
    \/ line_number = None
    \/ /\ HasAttr(e, "parse_position")
       /\ IF line_number[1].range
          THEN e.attrs["parse_position"] \in line_number[1].start..(line_number[1].stop - 1)
          ELSE e.attrs["parse_position"] = line_number[1].start

AttrsFilterPasses(e, attrs) ==
    \/ attrs = None
    \/ \A k \in DOMAIN attrs[1] : GetAttr(e, k) = attrs[1][k]

ContainsFilterPasses(e, contains) ==
    \/ contains = None
    \/ IsSubstring(html_unescape(contains[1]), get_element_text(e))

\* "for elem in self.dom.getElementsByTagName(tag): ... matches.append(elem)"
Matches(tree, tag, attrs, line_number, contains) ==
    SelectSeq(ByTagInDoc(tree, tag),
              LAMBDA q : /\ LineFilterPasses(At(tree, q), line_number)
                         /\ AttrsFilterPasses(At(tree, q), attrs)
                         /\ ContainsFilterPasses(At(tree, q), contains))

\* truth value of an argument in "if contains: / elif line_number: / elif attrs:"
Truthy(arg) == arg # None /\ arg[1] # <<>>

TruthyLine(line_number) ==
    /\ line_number # None
    /\ IF line_number[1].range THEN line_number[1].start < line_number[1].stop
       ELSE line_number[1].start # 0

\* the parts of the filter description, in the order they are appended
FilterDescription(attrs, line_number, contains) ==
    (IF line_number # None
     THEN <<[filter |-> "line",
             text |-> IF line_number[1].range
                      THEN <<"lines", line_number[1].start, line_number[1].stop - 1>>
                      ELSE <<"line", line_number[1].start>>]>>
     ELSE <<>>)
    \o (IF attrs # None THEN <<[filter |-> "attributes", text |-> attrs[1]]>> ELSE <<>>)
    \o (IF contains # None THEN <<[filter |-> "contains", text |-> contains[1]]>> ELSE <<>>)

Hint(attrs, line_number, contains) ==
    IF Truthy(contains) THEN "text may be split across elements or worded differently"
    ELSE IF TruthyLine(line_number) THEN "line numbers may have changed if the document was modified"
    ELSE IF Truthy(attrs) THEN "check that the attribute values are correct"
    ELSE "try adding filters (attrs/line_number/contains)"

NotFound(tag, attrs, line_number, contains) ==
    [raised |-> TRUE, node |-> None,
     message |-> [head |-> "Node not found", tag |-> tag,
                  filters |-> FilterDescription(attrs, line_number, contains),
                  hint |-> Hint(attrs, line_number, contains)]]

MultipleFound(tag) ==
    [raised |-> TRUE, node |-> None,
     message |-> [head |-> "Multiple nodes found", tag |-> tag, filters |-> <<>>,
                  hint |-> "add filters (attrs/line_number/contains) to narrow down"]]

Found(q) == [raised |-> FALSE, node |-> Some(q), message |-> None]

\* a variant that returns the first match when there are several
XMLEditor_get_node_first(tree, tag, attrs, line_number, contains) ==
    LET matches == Matches(tree, tag, attrs, line_number, contains)
    IN IF matches = <<>> THEN NotFound(tag, attrs, line_number, contains)
       ELSE Found(matches[1])

\* XMLEditor.get_node(tag, attrs, line_number, contains)
XMLEditor_get_node(tree, tag, attrs, line_number, contains) ==
    LET matches == Matches(tree, tag, attrs, line_number, contains)
    IN IF matches = <<>> THEN NotFound(tag, attrs, line_number, contains)
       ELSE IF Len(matches) > 1 THEN MultipleFound(tag)
       ELSE Found(matches[1])

\* ------------------------------------------------------------------------
\* Lookups in a parsed, then edited, document (SpecLookup)
\* ------------------------------------------------------------------------
MaxLookups == 2

\* the element n as the parser leaves it, started on the given line
OnLine(n, line) == SetAttr(n, "parse_position", line)

\* a body read from a file: paragraphs, runs and text leaves with their lines
ParsedBody ==
    OnLine(Elem("w:body", NoAttrs,
      <<OnLine(Para(<<OnLine(RunR(<<OnLine(T(<<"a", "b">>), 3)>>), 3),
                      OnLine(Elem("w:r", NoAttrs, <<OnLine(TSp(<<" ">>), 4)>>), 4),
                      OnLine(RunR(<<OnLine(T(<<"c", "&">>), 4)>>), 4)>>), 2),
        OnLine(Para(<<OnLine(Region("w:ins", "1", "Ann",
                                    <<OnLine(RunR(<<OnLine(T(<<"a", "b">>), 6)>>), 6)>>), 6),
                      OnLine(Region("w:del", "2", "Ann",
                                    <<OnLine(RunD(<<OnLine(DT(<<"c">>), 7)>>), 7)>>), 7)>>), 5)>>), 1)

InitLookup ==
    /\ dom = ParsedBody
    /\ base = Idle
    /\ author = "Claude"
    /\ nops = 0
    /\ last = [op |-> "init"]
    /\ direct = FALSE
    /\ mem = Idle /\ disk = Idle /\ sess = Idle /\ hist = Idle
    /\ xsd = Idle /\ chk = Idle

LookupTags == {"w:p", "w:r", "w:ins"}

AttrFilters == {None, Some(<<>>), Some("w:id" :> "1"), Some("w:rsidR" :> "00A1")}

LineFilters ==
    {None, Some([range |-> FALSE, start |-> 3, stop |-> 3]),
     Some([range |-> FALSE, start |-> 0, stop |-> 0]),
     Some([range |-> TRUE, start |-> 4, stop |-> 7])}

ContainsFilters == {None, Some(<<>>), Some(<<"a", "b">>), Some(<<"c">> \o AMP)}

\* editor.get_node(tag, attrs, line_number, contains), raising or returning
GetNode ==
    \E tag \in LookupTags, attrs \in AttrFilters,
       line_number \in LineFilters, contains \in ContainsFilters :
        /\ nops < MaxLookups
        /\ nops' = nops + 1
        /\ last' = [op |-> "get_node", tag |-> tag, attrs |-> attrs,
                    line_number |-> line_number, contains |-> contains,
                    result |-> XMLEditor_get_node(dom, tag, attrs, line_number, contains)]
        /\ UNCHANGED <<dom, base, author, direct, sessionVars, xsd, chk>>

\* editor.insert_after(run, "<w:r><w:t>ab</w:t></w:r>"): the new run has no
\* parse position
InsertRun ==
    \E p \in SeqToSet(ByTagInDoc(dom, "w:r")) :
        /\ nops < MaxLookups
        /\ nops' = nops + 1
        /\ dom' = insert_after(dom, p, <<Elem("w:r", NoAttrs, <<T(<<"a", "b">>)>>)>>, Ctx)
        /\ last' = [op |-> "insert_after"]
        /\ UNCHANGED <<base, author, direct, sessionVars, xsd, chk>>

NextLookup == GetNode \/ InsertRun

SpecLookup == InitLookup /\ [][NextLookup]_vars

\* the elements of the tree that satisfy every given filter: the tag, each
\* named attribute with the given value (an absent attribute reads as ""),
\* a parse line equal to the given line or within the given range, and the
\* given string, entities resolved, within the element's text
Satisfying(tree, tag, attrs, line_number, contains) ==
    {q \in SeqToSet(AllPaths(tree)) :
        LET e == At(tree, q) IN
        /\ e.tag = tag
        /\ attrs # None => \A k \in DOMAIN attrs[1] : GetAttr(e, k) = attrs[1][k]
        /\ line_number # None =>
              /\ HasAttr(e, "parse_position")
              /\ e.attrs["parse_position"] >= line_number[1].start
              /\ IF line_number[1].range THEN e.attrs["parse_position"] < line_number[1].stop
                 ELSE e.attrs["parse_position"] <= line_number[1].stop
        /\ contains # None => IsSubstring(html_unescape(contains[1]), get_element_text(e))}

\* C16: get_node returns the element when exactly one element of the tree
\* satisfies all the given filters, and raises, returning no element, when
\* none or more than one does
C16_GetNodeUnique ==
    last.op = "get_node" =>
        LET sat == Satisfying(dom, last.tag, last.attrs, last.line_number, last.contains)
        IN IF Cardinality(sat) = 1
           THEN ~last.result.raised /\ last.result.node = Some(CHOOSE q \in sat : TRUE)
           ELSE last.result.raised /\ last.result.node = None

\* a lookup by tag, line and text that found its one element after a run
\* that also holds the text was inserted
C16_Witness ==
    /\ last.op = "get_node"
    /\ nops = 2
    /\ last.contains = Some(<<"a", "b">>)
    /\ last.attrs = None
    /\ last.line_number = Some([range |-> FALSE, start |-> 3, stop |-> 3])
    /\ ~last.result.raised
    /\ \E q \in SeqToSet(ByTagInDoc(dom, last.tag)) : ~HasAttr(At(dom, q), "parse_position")
    /\ \E q \in SeqToSet(ByTagInDoc(dom, last.tag)) :
          /\ Some(q) # last.result.node
          /\ ContainsFilterPasses(At(dom, q), last.contains)

\* the filters a call was given
GivenFilters(attrs, line_number, contains) ==
    (IF line_number # None THEN {"line"} ELSE {})
        \cup (IF attrs # None THEN {"attributes"} ELSE {})
        \cup (IF contains # None THEN {"contains"} ELSE {})

\* the filters an error message names
NamedFilters(message) == {message.filters[i].filter : i \in 1..Len(message.filters)}

\* C17: the error get_node raises names every filter that was applied (line
\* or line range, attributes, contained text) and gives a hint, when nothing
\* matched and when several elements matched
C17_ErrorNamesFilters ==
    (last.op = "get_node" /\ last.result.raised) =>
        /\ last.result.message.hint # ""
        /\ NamedFilters(last.result.message)
             = GivenFilters(last.attrs, last.line_number, last.contains)

\* ------------------------------------------------------------------------
\* BaseSchemaValidator.validate_file_against_xsd
\*
\* A schema violation of a part is where it is (the offending element) and
\* the message the schema engine gives for it; the message names the kind of
\* violation and the element's tag, not its place in the file.
\* ------------------------------------------------------------------------
MaxLoc == 2

Messages == {"Element 'w:foo': This element is not expected.",
             "Element 'w:ins': The attribute 'w:id' is required but missing."}

Violations == [loc : 1..MaxLoc, message : Messages]

\* a part of the baseline archive: whether the archive has it, and its violations
NoFile == [exists |-> FALSE, violations |-> {}]

File(vs) == [exists |-> TRUE, violations |-> vs]

\* _validate_single_file_xsd: (None, None) without a mapped schema, else
\* (is_valid, the set of error.message of the error log)
validate_single_file_xsd(mapped, part) ==
    IF ~mapped THEN [is_valid |-> "None", errors |-> {}]
    ELSE IF part = {} THEN [is_valid |-> "True", errors |-> {}]
    ELSE [is_valid |-> "False", errors |-> {v.message : v \in part}]

\* _get_original_file_errors
get_original_file_errors(mapped, original) ==
    IF ~original.exists THEN {}
    ELSE validate_single_file_xsd(mapped, original.violations).errors

\* a variant that reports the errors of the working copy without the diff
validate_file_against_xsd_undiffed(mapped, current, original) ==
    LET cur == validate_single_file_xsd(mapped, current)
    IN IF cur.is_valid = "None" THEN [is_valid |-> "None", new_errors |-> {}]
       ELSE IF cur.is_valid = "True" THEN [is_valid |-> "True", new_errors |-> {}]
       ELSE [is_valid |-> "False", new_errors |-> cur.errors]

validate_file_against_xsd(mapped, current, original) ==
    LET cur == validate_single_file_xsd(mapped, current)
    IN IF cur.is_valid = "None" THEN [is_valid |-> "None", new_errors |-> {}]
       ELSE IF cur.is_valid = "True" THEN [is_valid |-> "True", new_errors |-> {}]
       ELSE LET new_errors == cur.errors \ get_original_file_errors(mapped, original)
            IN IF new_errors # {} THEN [is_valid |-> "False", new_errors |-> new_errors]
               ELSE [is_valid |-> "True", new_errors |-> {}]

NotRun == [is_valid |-> "not run", new_errors |-> {}]

\* the part as it is in the baseline archive and in the working copy
InitXsd ==
    /\ \E m \in BOOLEAN, o \in {File(vs) : vs \in SUBSET Violations} \cup {NoFile} :
          xsd = [mapped |-> m, original |-> o, current |-> o.violations, result |-> NotRun]
    /\ dom = Idle /\ base = Idle /\ author = Idle /\ nops = 0 /\ last = Idle
    /\ direct = FALSE
    /\ mem = Idle /\ disk = Idle /\ sess = Idle /\ hist = Idle /\ chk = Idle

\* an edit of the working copy that brings a violation in
Introduce ==
    \E v \in Violations \ xsd.current :
        /\ xsd' = [xsd EXCEPT !.current = @ \cup {v}, !.result = NotRun]
        /\ UNCHANGED <<treeVars, author, sessionVars, chk>>

\* an edit of the working copy that takes a violation out
Repair ==
    \E v \in xsd.current :
        /\ xsd' = [xsd EXCEPT !.current = @ \ {v}, !.result = NotRun]
        /\ UNCHANGED <<treeVars, author, sessionVars, chk>>

ValidateFile ==
    /\ xsd.result = NotRun
    /\ xsd' = [xsd EXCEPT !.result = validate_file_against_xsd(xsd.mapped, xsd.current, xsd.original)]
    /\ UNCHANGED <<treeVars, author, sessionVars, chk>>

NextXsd == Introduce \/ Repair \/ ValidateFile

SpecXsd == InitXsd /\ [][NextXsd]_vars

\* the violations of the baseline part
Preexisting == xsd.original.violations

\* C5 as stated: with a mapped schema, violations unchanged from the baseline
\* yield no reported error, every violation new in the working copy is
\* reported, and one new violation beside the pre-existing ones reports
\* exactly that violation
C5_EveryNewViolationReported ==
    (xsd.mapped /\ xsd.result # NotRun) =>
        /\ (xsd.current = Preexisting => xsd.result.new_errors = {})
        /\ \A v \in xsd.current \ Preexisting : v.message \in xsd.result.new_errors
        /\ \A v \in Violations :
              (v \notin Preexisting /\ xsd.current = Preexisting \cup {v})
                  => xsd.result.new_errors = {v.message}

\* C5 amended: with a mapped schema, the reported errors are the messages of
\* the working copy's violations that no violation of the baseline part
\* carries: unchanged violations yield no error, a new violation is reported
\* exactly when its message differs from every baseline message of the part,
\* and one such violation beside the pre-existing ones reports exactly itself
C5_NewMessagesReported ==
    (xsd.mapped /\ xsd.result # NotRun) =>
        /\ (xsd.current = Preexisting => xsd.result.new_errors = {})
        /\ \A v \in xsd.current :
              (v.message \in xsd.result.new_errors)
                  <=> (\A b \in Preexisting : b.message # v.message)
        /\ \A m \in xsd.result.new_errors : \E v \in xsd.current : v.message = m
        /\ \A v \in Violations :
              (/\ xsd.current = Preexisting \cup {v}
               /\ \A b \in Preexisting : b.message # v.message)
                  => xsd.result.new_errors = {v.message}
        /\ (xsd.result.is_valid = "False") <=> (xsd.result.new_errors # {})

C5_Witness ==
    /\ xsd.mapped /\ xsd.result # NotRun
    /\ Preexisting # {}
    /\ \E v \in Violations :
          /\ v \notin Preexisting
          /\ xsd.current = Preexisting \cup {v}
          /\ xsd.result.new_errors = {v.message}

\* ------------------------------------------------------------------------
\* DOCXSchemaValidator.validate and Document.validate: which checks run
\*
\* chk.failing is the set of checks that find a violation in the package as
\* it is; chk.ran the checks the last run executed (each prints what it
\* finds); chk.entry the method that was called and chk.outcome what it
\* returned or raised.
\* ------------------------------------------------------------------------
\* the checks of DOCXSchemaValidator.validate after well-formedness, in order
LaterChecks == <<"validate_namespaces", "validate_unique_ids", "validate_file_references",
                 "validate_content_types", "validate_against_xsd",
                 "validate_whitespace_preservation", "validate_deletions",
                 "validate_insertions", "validate_all_relationship_ids">>

SchemaChecks == {"validate_xml"} \cup SeqToSet(LaterChecks)

AllChecks == SchemaChecks \cup {"redlining"}

RECURSIVE RunLater(_, _, _)
\* "if not self.validate_...(): all_valid = False", one check after the other
RunLater(failing, i, acc) ==
    IF i > Len(LaterChecks) THEN acc
    ELSE RunLater(failing, i + 1,
                  [all_valid |-> acc.all_valid /\ LaterChecks[i] \notin failing,
                   ran |-> acc.ran \cup {LaterChecks[i]}])

DOCXSchemaValidator_validate(failing) ==
    IF "validate_xml" \in failing
    THEN [all_valid |-> FALSE, ran |-> {"validate_xml"}]
    ELSE RunLater(failing, 1, [all_valid |-> TRUE, ran |-> {"validate_xml"}])

Document_validate(failing) ==
    LET schema == DOCXSchemaValidator_validate(failing)
    IN IF ~schema.all_valid THEN [outcome |-> "schema failed", ran |-> schema.ran]
       ELSE [outcome |-> IF "redlining" \in failing THEN "redlining failed" ELSE "passed",
             ran |-> schema.ran \cup {"redlining"}]

InitChecks ==
    /\ chk = [failing |-> {}, ran |-> {}, entry |-> "none", outcome |-> "not run"]
    /\ dom = Idle /\ base = Idle /\ author = Idle /\ nops = 0 /\ last = Idle
    /\ direct = FALSE
    /\ mem = Idle /\ disk = Idle /\ sess = Idle /\ hist = Idle /\ xsd = Idle

\* an edit of the package after which check c finds a violation, or no longer does
Break ==
    \E c \in AllChecks \ chk.failing :
        /\ chk' = [failing |-> chk.failing \cup {c}, ran |-> {}, entry |-> "none", outcome |-> "not run"]
        /\ UNCHANGED <<treeVars, author, sessionVars, xsd>>

Mend ==
    \E c \in chk.failing :
        /\ chk' = [failing |-> chk.failing \ {c}, ran |-> {}, entry |-> "none", outcome |-> "not run"]
        /\ UNCHANGED <<treeVars, author, sessionVars, xsd>>

\* DOCXSchemaValidator(...).validate() on its own
SchemaValidate ==
    /\ chk.outcome = "not run"
    /\ LET r == DOCXSchemaValidator_validate(chk.failing)
       IN chk' = [chk EXCEPT !.ran = r.ran, !.entry = "DOCXSchemaValidator.validate",
                             !.outcome = IF r.all_valid THEN "passed" ELSE "schema failed"]
    /\ UNCHANGED <<treeVars, author, sessionVars, xsd>>

\* Document.validate()
DocumentValidate ==
    /\ chk.outcome = "not run"
    /\ LET r == Document_validate(chk.failing)
       IN chk' = [chk EXCEPT !.ran = r.ran, !.entry = "Document.validate",
                             !.outcome = r.outcome]
    /\ UNCHANGED <<treeVars, author, sessionVars, xsd>>

NextChecks == Break \/ Mend \/ SchemaValidate \/ DocumentValidate

SpecChecks == InitChecks /\ [][NextChecks]_vars

\* C6: a validation run executes every check even when another check has
\* failed: DOCXSchemaValidator.validate runs all its checks whatever fails
\* (well-formedness included), and Document.validate runs the redlining
\* validator although the schema engine failed
C6_EveryCheckRuns ==
    /\ chk.entry = "DOCXSchemaValidator.validate" => chk.ran = SchemaChecks
    /\ chk.entry = "Document.validate" => chk.ran = AllChecks

\* ------------------------------------------------------------------------
\* Packages: the XML parts of a directory or archive
\* ------------------------------------------------------------------------
DocumentXml == "word/document.xml"

CommentsXml == "word/comments.xml"

CommentsExtendedXml == "word/commentsExtended.xml"

CommentsIdsXml == "word/commentsIds.xml"

CommentsExtensibleXml == "word/commentsExtensible.xml"

CommentParts == {CommentsXml, CommentsExtendedXml, CommentsIdsXml, CommentsExtensibleXml}

Parts == {DocumentXml} \cup CommentParts

\* the document element of each comment part (the tag its editor looks up)
RootTag == (CommentsXml :> "w:comments") @@ (CommentsExtendedXml :> "w15:commentsEx")
           @@ (CommentsIdsXml :> "w16cid:commentsIds")
           @@ (CommentsExtensibleXml :> "w16cex:commentsExtensible")
           @@ (DocumentXml :> "w:body")

\* a file of a directory: whether it is there and its document element
Absent == [exists |-> FALSE, root |-> Elem("none", NoAttrs, <<>>)]

Present(root) == [exists |-> TRUE, root |-> root]

\* TEMPLATE_DIR / <part>: the document element with no entry
Template(part) == Present(Elem(RootTag[part], NoAttrs, <<>>))

\* a directory that does not exist (or holds none of the parts)
NoDirectory == [part \in Parts |-> Absent]

\* shutil.copytree(src, dst, dirs_exist_ok=True): every file of src is
\* written over dst; files only dst has stay
copytree(src, dst) == [part \in Parts |-> IF src[part].exists THEN src[part] ELSE dst[part]]

\* pack_document(input_dir, output_file): the archive holds the condensed
\* copy of every file; input_dir is only read
pack_document(dir) ==
    [part \in Parts |-> IF dir[part].exists THEN Present(condense_xml(dir[part].root)) ELSE Absent]

\* ------------------------------------------------------------------------
\* Comment markup
\* ------------------------------------------------------------------------
\* _comment_range_start_xml
comment_range_start_xml(id) == Leaf("w:commentRangeStart", "w:id" :> id, <<>>)

\* _comment_ref_run_xml
comment_ref_run_xml(id) ==
    Elem("w:r", NoAttrs,
         <<Elem("w:rPr", NoAttrs, <<Leaf("w:rStyle", "w:val" :> "CommentReference", <<>>)>>),
           Leaf("w:commentReference", "w:id" :> id, <<>>)>>)

\* _comment_range_end_xml: the range end and the reference run
comment_range_end_xml(id) ==
    <<Leaf("w:commentRangeEnd", "w:id" :> id, <<>>), comment_ref_run_xml(id)>>

\* a variant that escapes "<" and ">" before "&"
escaped_text_amp_last(text) == ReplaceAll(ReplaceAll(ReplaceAll(text, "<", LT), ">", GT), "&", AMP)

\* the text as _add_to_comments_xml writes it into the fragment
escaped_text(text) == ReplaceAll(ReplaceAll(ReplaceAll(text, "&", AMP), "<", LT), ">", GT)

\* the w:comment fragment of _add_to_comments_xml once parsed
comment_xml(id, para_id, parsed) ==
    Elem("w:comment", "w:id" :> id,
         <<Elem("w:p", ("w14:paraId" :> para_id) @@ ("w14:textId" :> "77777777"),
                <<Elem("w:r", NoAttrs,
                       <<Elem("w:rPr", NoAttrs,
                              <<Leaf("w:rStyle", "w:val" :> "CommentReference", <<>>)>>),
                         Leaf("w:annotationRef", NoAttrs, <<>>)>>),
                  Elem("w:r", NoAttrs,
                       <<Elem("w:rPr", NoAttrs, <<Leaf("w:color", "w:val" :> "000000", <<>>)>>),
                         Leaf("w:t", NoAttrs, parsed)>>)>>)>>)

\* the w15:commentEx of _add_to_comments_extended_xml; "" is no parent
comment_ex_xml(para_id, parent_para_id) ==
    IF parent_para_id # ""
    THEN Leaf("w15:commentEx", ("w15:paraId" :> para_id) @@ ("w15:paraIdParent" :> parent_para_id)
                               @@ ("w15:done" :> "0"), <<>>)
    ELSE Leaf("w15:commentEx", ("w15:paraId" :> para_id) @@ ("w15:done" :> "0"), <<>>)

\* the w16cid:commentId of _add_to_comments_ids_xml
comment_id_xml(para_id, durable_id) ==
    Leaf("w16cid:commentId", ("w16cid:paraId" :> para_id) @@ ("w16cid:durableId" :> durable_id), <<>>)

\* the w16cex:commentExtensible of _add_to_comments_extensible_xml
comment_extensible_xml(durable_id) ==
    Leaf("w16cex:commentExtensible", "w16cex:durableId" :> durable_id, <<>>)

\* ------------------------------------------------------------------------
\* Document: the comment operations
\*
\* A session is w = [mem, unp, sess]: mem[part] is the cached editor of the
\* part (loaded or not, and its DOM), unp the files of <temp_dir>/unpacked,
\* sess the fields next_comment_id and existing_comments.
\* ------------------------------------------------------------------------
\* Document.__getitem__: the editor is created from the file on first use
editor(w, part) ==
    IF w.mem[part].loaded THEN w
    ELSE [w EXCEPT !.mem[part] = [loaded |-> TRUE, root |-> w.unp[part].root]]

\* XMLEditor.get_node(tag, attrs={"w:id": id}): the matching elements
get_node(tree, tag, id) ==
    SelectSeq(ByTagInDoc(tree, tag), LAMBDA q : GetAttr(At(tree, q), "w:id") = id)

\* the path q after n elements were inserted at index at below par
ShiftAfterInsert(q, par, at, n) ==
    IF IsPrefix(par, q) /\ Len(q) > Len(par) /\ q[Len(par) + 1] >= at
    THEN [q EXCEPT ![Len(par) + 1] = @ + n]
    ELSE q

RECURSIVE FirstParaId(_, _, _)
\* "for p_elem in comment_elem.getElementsByTagName('w:p')": the first
\* w14:paraId that is not empty, "" when there is none
FirstParaId(tree, ps, i) ==
    IF i > Len(ps) THEN ""
    ELSE IF GetAttr(At(tree, ps[i]), "w14:paraId") # "" THEN GetAttr(At(tree, ps[i]), "w14:paraId")
    ELSE FirstParaId(tree, ps, i + 1)

RECURSIVE LoadLoop(_, _, _, _)
\* the loop of _load_existing_comments; int() of an id that is not a number
\* raises ValueError
LoadLoop(tree, cs, i, acc) ==
    IF i > Len(cs) THEN [raised |-> FALSE, existing |-> acc]
    ELSE LET id == GetAttr(At(tree, cs[i]), "w:id")
             para_id == FirstParaId(tree, ByTagUnder(tree, cs[i], "w:p"), 1)
         IN IF id = "" \/ para_id = "" THEN LoadLoop(tree, cs, i + 1, acc)
            ELSE IF ~IsNum(id) THEN [raised |-> TRUE, existing |-> acc]
            ELSE LoadLoop(tree, cs, i + 1, (IntOf(id) :> para_id) @@ acc)

\* Document._load_existing_comments
load_existing_comments(file) ==
    IF ~file.exists THEN [raised |-> FALSE, existing |-> <<>>]
    ELSE LoadLoop(file.root, ByTagInDoc(file.root, "w:comment"), 1, <<>>)

\* a variant that counts the comments instead of taking the largest id
get_next_comment_id_counts(file) ==
    IF ~file.exists THEN 0 ELSE Len(ByTagInDoc(file.root, "w:comment"))

\* Document._get_next_comment_id
get_next_comment_id(file) ==
    IF ~file.exists THEN 0
    ELSE MaxIdOver(file.root, ByTagInDoc(file.root, "w:comment"), 1, -1) + 1

\* the first lines of each _add_to_..._xml: the template is copied where the
\* file is missing, the editor is opened
open_part(w, part) ==
    editor(IF w.unp[part].exists THEN w ELSE [w EXCEPT !.unp[part] = Template(part)], part)

\* "root = editor.get_node(tag=...); editor.append_to(root, xml)"
append_entry(w, part, entry, ctx) ==
    LET w1 == open_part(w, part)
        roots == ByTagInDoc(w1.mem[part].root, RootTag[part])
    IN Strict(append_to(w1.mem[part].root, roots[1], <<entry>>, ctx),
              LAMBDA root : [w1 EXCEPT !.mem[part].root = root])

Failed(w) == [raised |-> TRUE, w |-> w, id |-> -1]

\* the part of add_comment and reply_to_comment after the range markers:
\* the four comment parts, existing_comments, next_comment_id
write_comment(w, text, para_id, durable_id, parent_para_id, ctx) ==
    LET comment_id == w.sess.next_comment_id
        parsed == ParseCharData(escaped_text(text))
        w1 == open_part(w, CommentsXml)
    IN IF ~parsed.ok THEN Failed(w1)
       ELSE Strict(append_entry(w1, CommentsXml,
                                comment_xml(StrOf(comment_id), para_id, parsed.text), ctx),
            LAMBDA w2 :
            Strict(append_entry(w2, CommentsExtendedXml,
                                comment_ex_xml(para_id, parent_para_id), ctx),
            LAMBDA w3 :
            Strict(append_entry(w3, CommentsIdsXml, comment_id_xml(para_id, durable_id), ctx),
            LAMBDA w4 :
            Strict(append_entry(w4, CommentsExtensibleXml, comment_extensible_xml(durable_id), ctx),
            LAMBDA w5 :
                [raised |-> FALSE,
                 w |-> [w5 EXCEPT !.sess = [next_comment_id |-> comment_id + 1,
                                            existing_comments |->
                                                (comment_id :> para_id) @@ w.sess.existing_comments]],
                 id |-> comment_id]))))

\* Document.add_comment(start, end, text); start and end are paths of
\* word/document.xml
add_comment(w, start, end, text, para_id, durable_id, ctx) ==
    LET id == StrOf(w.sess.next_comment_id)
        d0 == w.mem[DocumentXml].root
        end1 == ShiftAfterInsert(end, ParentPath(start), start[Len(start)], 1)
    IN Strict(insert_before(d0, start, <<comment_range_start_xml(id)>>, ctx),
       LAMBDA d1 :
       Strict(IF At(d1, end1).tag = "w:p"
              THEN append_to(d1, end1, comment_range_end_xml(id), ctx)
              ELSE insert_after(d1, end1, comment_range_end_xml(id), ctx),
       LAMBDA d2 :
           write_comment([w EXCEPT !.mem[DocumentXml].root = d2], text, para_id, durable_id, "", ctx)))

\* a variant that takes the comment id before it looks the parent up
reply_to_comment_takes_id(w, parent_comment_id, text, para_id, durable_id, ctx) ==
    Failed([w EXCEPT !.sess.next_comment_id = @ + 1])

\* Document.reply_to_comment(parent_comment_id, text)
reply_to_comment(w, parent_comment_id, text, para_id, durable_id, ctx) ==
    IF parent_comment_id \notin DOMAIN w.sess.existing_comments THEN Failed(w)
    ELSE LET id == StrOf(w.sess.next_comment_id)
             d0 == w.mem[DocumentXml].root
             starts == get_node(d0, "w:commentRangeStart", StrOf(parent_comment_id))
             refs == get_node(d0, "w:commentReference", StrOf(parent_comment_id))
         IN IF Len(starts) # 1 \/ Len(refs) # 1 THEN Failed(w)
            ELSE LET ref == ShiftAfterInsert(refs[1], ParentPath(starts[1]),
                                             starts[1][Len(starts[1])] + 1, 1)
                     parent_ref_run == ParentPath(ref)
                 IN Strict(insert_after(d0, starts[1], <<comment_range_start_xml(id)>>, ctx),
                    LAMBDA d1 :
                    Strict(insert_after(d1, parent_ref_run,
                                        <<Leaf("w:commentRangeEnd", "w:id" :> id, <<>>)>>, ctx),
                    LAMBDA d2 :
                    Strict(insert_after(d2, parent_ref_run, <<comment_ref_run_xml(id)>>, ctx),
                    LAMBDA d3 :
                        write_comment([w EXCEPT !.mem[DocumentXml].root = d3], text, para_id,
                                      durable_id, w.sess.existing_comments[parent_comment_id], ctx))))

\* ------------------------------------------------------------------------
\* Document: construction, validate, save
\*
\* disk holds the directory the session was opened on (original), the
\* directory save may be given (destination), and the two things below
\* temp_dir: the working tree (unpacked) and the baseline archive (baseline).
\* ------------------------------------------------------------------------
\* the verdict of DOCXSchemaValidator(unpacked, original_docx).validate() is
\* an input: it depends on schemas and parts that are not in the model
SchemaVerdicts == BOOLEAN

\* Document.validate: "passed" or the validator that made it raise; both
\* validators read the files of the working tree and of the baseline archive
Document_validate_disk(d, schema_ok) ==
    IF ~schema_ok THEN "schema"
    ELSE IF ~d.unpacked[DocumentXml].exists THEN "redlining"
    ELSE IF ~RedliningValidate(d.unpacked[DocumentXml].root, d.baseline[DocumentXml].root)
    THEN "redlining"
    ELSE "passed"

\* "for editor in self._editors.values(): editor.save()"
save_editors(d, m) ==
    [d EXCEPT !.unpacked = [part \in Parts |->
                               IF m[part].loaded THEN Present(SavedXml(m[part].root)) ELSE @[part]]]

\* the copy step of save: destination None is the original directory
copy_to_target(d, destination) ==
    IF destination = "none" THEN [d EXCEPT !.original = copytree(d.unpacked, @)]
    ELSE [d EXCEPT !.destination = copytree(d.unpacked, @)]

\* a variant that copies the working tree before it validates
Document_save_copies_first(d, m, destination, validate, schema_ok) ==
    LET d1 == copy_to_target(save_editors(d, m), destination)
        verdict == IF validate THEN Document_validate_disk(d1, schema_ok) ELSE "passed"
    IN [raised |-> verdict # "passed", disk |-> d1]

\* a variant that packs the working tree over the baseline archive once saved
Document_save_repacks(d, m, destination, validate, schema_ok) ==
    LET d1 == save_editors(d, m)
        verdict == IF validate THEN Document_validate_disk(d1, schema_ok) ELSE "passed"
    IN IF verdict # "passed" THEN [raised |-> TRUE, disk |-> d1]
       ELSE [raised |-> FALSE,
             disk |-> [copy_to_target(d1, destination) EXCEPT !.baseline = pack_document(d1.unpacked)]]

\* Document.save(destination, validate)
Document_save(d, m, destination, validate, schema_ok) ==
    LET d1 == save_editors(d, m)
        verdict == IF validate THEN Document_validate_disk(d1, schema_ok) ELSE "passed"
    IN IF verdict # "passed" THEN [raised |-> TRUE, disk |-> d1]
       ELSE [raised |-> FALSE, disk |-> copy_to_target(d1, destination)]

\* Document.__init__ up to next_comment_id: the working tree and the baseline
\* archive are made from the original directory, the comments are loaded
Document_init(d) ==
    LET unpacked == copytree(d.original, NoDirectory)
        d1 == [d EXCEPT !.unpacked = unpacked, !.baseline = pack_document(d.original)]
        loaded == load_existing_comments(unpacked[CommentsXml])
        m == [part \in Parts |->
                 IF part = DocumentXml \/ (part = CommentsXml /\ unpacked[part].exists)
                 THEN [loaded |-> TRUE, root |-> unpacked[part].root]
                 ELSE [loaded |-> FALSE, root |-> Absent.root]]
    IN [raised |-> loaded.raised, disk |-> d1, mem |-> m,
        sess |-> [next_comment_id |-> get_next_comment_id(unpacked[CommentsXml]),
                  existing_comments |-> loaded.existing]]

\* ------------------------------------------------------------------------
\* The session: a package is opened, commented, edited, validated and saved
\* ------------------------------------------------------------------------
MaxCalls == 2

MaxSteps == 3

\* the largest parent id a reply is tried with
MaxParent == 6

\* _generate_hex_id(): a random id; two draws can give the same one
HexIds == {"0000000A", "7FFFFFFE"}

DurableIds == {"0000000B", "7FFFFFFD"}

CommentTexts == {<<"<", "&">>, <<"\f">>}

PlainTexts == {<<"a">>}

PlainHexIds == {"0000000A"}

OldComment(id, para_attrs, txt) ==
    Elem("w:comment", ("w:id" :> id) @@ ("w:author" :> "Ann"),
         <<Elem("w:p", para_attrs, <<Elem("w:r", NoAttrs, <<T(txt)>>)>>)>>)

\* a body with no comment, and one tracked insertion of "Claude"
PlainBody ==
    Elem("w:body", NoAttrs,
         <<Para(<<RunR(<<T(<<"a">>)>>)>>),
           Para(<<Region("w:ins", "2", "Claude", <<RunR(<<T(<<"b">>)>>)>>)>>),
           Elem("w:sectPr", NoAttrs, <<>>)>>)

\* a body whose first paragraph is the range of comment 3
CommentedBody ==
    Elem("w:body", NoAttrs,
         <<Para(<<comment_range_start_xml("3"), RunR(<<T(<<"a">>)>>)>>
                \o comment_range_end_xml("3")),
           Para(<<RunR(<<T(<<"b">>)>>)>>),
           Elem("w:sectPr", NoAttrs, <<>>)>>)

CommentFiles(comments) ==
    (CommentsXml :> Present(Elem("w:comments", NoAttrs, comments)))
    @@ (CommentsExtendedXml :>
           Present(Elem("w15:commentsEx", NoAttrs, <<comment_ex_xml("0000000C", "")>>)))
    @@ (CommentsIdsXml :>
           Present(Elem("w16cid:commentsIds", NoAttrs, <<comment_id_xml("0000000C", "0000000D")>>)))
    @@ (CommentsExtensibleXml :>
           Present(Elem("w16cex:commentsExtensible", NoAttrs, <<comment_extensible_xml("0000000D")>>)))

\* a directory without comment parts
PlainPackage == (DocumentXml :> Present(PlainBody)) @@ NoDirectory

\* a directory with comment 3
CommentedPackage ==
    (DocumentXml :> Present(CommentedBody))
        @@ CommentFiles(<<OldComment("3", "w14:paraId" :> "0000000C", <<"c">>)>>)

\* the directories a session is opened on: the two above; one with comment 3,
\* a comment 5 that has no paragraph id and a comment whose id is not a
\* number; one with a comment whose id is not a number and that has a
\* paragraph id
InitPackages ==
    { PlainPackage, CommentedPackage,
      (DocumentXml :> Present(CommentedBody))
          @@ CommentFiles(<<OldComment("3", "w14:paraId" :> "0000000C", <<"c">>),
                            OldComment("5", NoAttrs, <<"d">>),
                            OldComment("x", NoAttrs, <<"e">>)>>),
      (DocumentXml :> Present(CommentedBody))
          @@ CommentFiles(<<OldComment("x", "w14:paraId" :> "0000000C", <<"c">>)>>) }

NoSession == [next_comment_id |-> 0, existing_comments |-> <<>>]

NoEditors == [part \in Parts |-> [loaded |-> FALSE, root |-> Absent.root]]

\* before Document(unpacked_dir) on one of pkgs, with at most limit calls to come
Unopened(pkgs, limit) ==
    /\ \E pkg \in pkgs :
          /\ disk = [original |-> pkg, destination |-> NoDirectory,
                     baseline |-> NoDirectory, unpacked |-> NoDirectory]
          /\ hist = [constructed |-> FALSE, origin |-> pkg, limit |-> limit, calls |-> 0,
                     returned |-> <<>>, created |-> <<>>, saves |-> 0,
                     last |-> [op |-> "none", raised |-> FALSE]]
    /\ mem = NoEditors
    /\ sess = NoSession
    /\ author = "Claude"
    /\ dom = Idle /\ base = Idle /\ nops = 0 /\ last = Idle /\ direct = FALSE
    /\ xsd = Idle /\ chk = Idle

Init == Unopened(InitPackages, MaxCalls)

World == [mem |-> mem, unp |-> disk.unpacked, sess |-> sess]

Ready == hist.constructed /\ hist.calls < hist.limit

\* Document(unpacked_dir)
Construct ==
    /\ ~hist.constructed /\ hist.last.op = "none"
    /\ LET r == Document_init(disk)
       IN /\ disk' = r.disk
          /\ mem' = IF r.raised THEN mem ELSE r.mem
          /\ sess' = IF r.raised THEN sess ELSE r.sess
          /\ hist' = [hist EXCEPT !.constructed = ~r.raised,
                                  !.last = [op |-> "Document", raised |-> r.raised]]
    /\ UNCHANGED <<treeVars, author, xsd, chk>>

\* the outcome r of a comment operation becomes the state of the session
Commented(op, r, text, parent) ==
    /\ mem' = r.w.mem
    /\ disk' = [disk EXCEPT !.unpacked = r.w.unp]
    /\ sess' = r.w.sess
    /\ hist' = [hist EXCEPT
                   !.calls = @ + 1,
                   !.returned = IF r.raised THEN @ ELSE Append(@, r.id),
                   !.created = IF r.raised THEN @
                               ELSE Append(@, [id |-> r.id, text |-> text, parent |-> parent]),
                   !.last = [op |-> op, raised |-> r.raised]]
    /\ UNCHANGED <<treeVars, author, xsd, chk>>

\* the elements of the first paragraph a comment is anchored on: the
\* paragraph and its runs that hold no comment reference
Anchors(tree) ==
    {q \in SeqToSet(DescPaths(tree)) :
        /\ q[1] = 1
        /\ \/ At(tree, q).tag = "w:p"
           \/ At(tree, q).tag = "w:r" /\ ByTagUnder(tree, q, "w:commentReference") = <<>>}

\* add_comment(start, end, text) from a run or paragraph to itself or to
\* its paragraph
AddComment ==
    \E start \in Anchors(mem[DocumentXml].root), end \in Anchors(mem[DocumentXml].root),
       text \in CommentTexts, para_id \in HexIds, durable_id \in DurableIds :
        /\ Ready
        /\ start = end \/ end = ParentPath(start)
        /\ Commented("add_comment",
                     add_comment(World, start, end, text, para_id, durable_id, Ctx), text, -1)

ReplyToComment ==
    \E parent \in 0..MaxParent, text \in CommentTexts, para_id \in HexIds, durable_id \in DurableIds :
        /\ Ready
        /\ Commented("reply_to_comment",
                     reply_to_comment(World, parent, text, para_id, durable_id, Ctx), text, parent)

Next == Construct \/ AddComment \/ ReplyToComment

Spec == Init /\ [][Next]_vars

\* ------------------------------------------------------------------------
\* The session with edits, validate and save
\* ------------------------------------------------------------------------
InitSave == Unopened({PlainPackage, CommentedPackage}, MaxSteps)

\* add_comment with a plain text
AddPlainComment ==
    \E start \in Anchors(mem[DocumentXml].root), end \in Anchors(mem[DocumentXml].root),
       text \in PlainTexts, para_id \in PlainHexIds, durable_id \in DurableIds :
        /\ Ready
        /\ start = end \/ end = ParentPath(start)
        /\ Commented("add_comment",
                     add_comment(World, start, end, text, para_id, durable_id, Ctx), text, -1)

\* reply_to_comment with a plain text
ReplyPlainly ==
    \E parent \in 0..MaxParent, text \in PlainTexts, para_id \in PlainHexIds, durable_id \in DurableIds :
        /\ Ready
        /\ Commented("reply_to_comment",
                     reply_to_comment(World, parent, text, para_id, durable_id, Ctx), text, parent)

\* a tracked deletion suggested on a run or a paragraph of the body
Transform ==
    /\ Ready
    /\ \E q \in Anchors(mem[DocumentXml].root) :
          LET r == suggest_deletion(mem[DocumentXml].root, q, Ctx)
          IN /\ mem' = [mem EXCEPT ![DocumentXml].root = r.dom]
             /\ hist' = [hist EXCEPT !.calls = @ + 1,
                                     !.last = [op |-> "suggest_deletion", raised |-> r.raised]]
    /\ UNCHANGED <<disk, sess, treeVars, author, xsd, chk>>

\* the text of a w:t of the body is overwritten through editor.dom
EditText ==
    /\ Ready
    /\ \E q \in SeqToSet(ByTagInDoc(mem[DocumentXml].root, "w:t")) :
          /\ At(mem[DocumentXml].root, q).text # <<"z">>
          /\ mem' = [mem EXCEPT ![DocumentXml].root =
                         SetAt(@, q, [At(@, q) EXCEPT !.text = <<"z">>])]
          /\ hist' = [hist EXCEPT !.calls = @ + 1, !.last = [op |-> "edit", raised |-> FALSE]]
    /\ UNCHANGED <<disk, sess, treeVars, author, xsd, chk>>

\* Document.validate()
Validate ==
    /\ Ready
    /\ \E schema_ok \in SchemaVerdicts :
          hist' = [hist EXCEPT !.calls = @ + 1,
                      !.last = [op |-> "validate",
                                raised |-> Document_validate_disk(disk, schema_ok) # "passed"]]
    /\ UNCHANGED <<mem, disk, sess, treeVars, author, xsd, chk>>

\* Document.save(destination, validate); the schema engine gives a verdict
\* only when it is run
Save ==
    /\ Ready
    /\ \E destination \in {"none", "destination"}, validate \in BOOLEAN, schema_ok \in SchemaVerdicts :
          /\ validate \/ schema_ok
          /\ LET r == Document_save(disk, mem, destination, validate, schema_ok)
             IN /\ disk' = r.disk
                /\ hist' = [hist EXCEPT !.calls = @ + 1,
                               !.saves = IF r.raised THEN @ ELSE @ + 1,
                               !.last = [op |-> "save", raised |-> r.raised,
                                         destination |-> destination, validate |-> validate,
                                         schema_ok |-> schema_ok]]
    /\ UNCHANGED <<mem, sess, treeVars, author, xsd, chk>>

NextSave ==
    Construct \/ AddPlainComment \/ ReplyPlainly \/ Transform \/ EditText \/ Validate \/ Save

SpecSave == InitSave /\ [][NextSave]_vars

\* ------------------------------------------------------------------------
\* Properties of save (SpecSave)
\* ------------------------------------------------------------------------
\* C1: the working tree is copied to the destination or over the original
\* directory only by a save whose validation passed or that was called with
\* validate=False; a save that fails validation raises and leaves both
\* directories as they were, and no other operation writes there
C1_CopyOnlyAfterValidation ==
    [][/\ (disk'.original # disk.original \/ disk'.destination # disk.destination)
            => /\ hist'.last.op = "save"
               /\ ~hist'.last.raised
               /\ hist'.last.validate
                     => /\ hist'.last.schema_ok
                        /\ RedliningValidate(disk'.unpacked[DocumentXml].root,
                                             disk'.baseline[DocumentXml].root)
       /\ (/\ hist'.calls = hist.calls + 1
           /\ hist'.last.op = "save"
           /\ hist'.last.validate
           /\ \/ ~hist'.last.schema_ok
              \/ ~RedliningValidate(disk'.unpacked[DocumentXml].root,
                                    disk'.baseline[DocumentXml].root))
            => /\ hist'.last.raised
               /\ disk'.original = disk.original
               /\ disk'.destination = disk.destination]_vars

\* a save with validation has raised although the working tree on disk
\* differs from the original directory, which is as it was at construction
C1_Witness ==
    /\ hist.last.op = "save" /\ hist.last.raised /\ hist.last.validate
    /\ disk.unpacked[DocumentXml] # disk.original[DocumentXml]
    /\ disk.original = hist.origin
    /\ disk.destination = NoDirectory

\* C4: once the session is constructed the baseline archive holds the
\* package as it was packed at construction, whatever was called since
C4_BaselineNeverMutated ==
    hist.constructed => disk.baseline = pack_document(hist.origin)

\* a save without destination has overwritten the original directory
C4_Witness ==
    /\ hist.saves >= 1
    /\ hist.calls = MaxSteps
    /\ hist.last.op = "save" /\ ~hist.last.raised /\ hist.last.destination = "none"
    /\ disk.original # hist.origin
    /\ disk.original[DocumentXml].root # disk.baseline[DocumentXml].root

\* ------------------------------------------------------------------------
\* Properties of the comment operations (Spec)
\* ------------------------------------------------------------------------
\* the w:comment elements of a comments part
CommentElements(file) ==
    IF ~file.exists THEN {}
    ELSE {At(file.root, q) : q \in SeqToSet(ByTagInDoc(file.root, "w:comment"))}

\* the largest numeric comment id of the package the session was opened on,
\* -1 when it has none
LargestIdAtConstruction ==
    LET ids == {IntOf(GetAttr(c, "w:id")) :
                   c \in {e \in CommentElements(hist.origin[CommentsXml]) : IsNum(GetAttr(e, "w:id"))}}
    IN IF ids = {} THEN -1 ELSE CHOOSE m \in ids : \A n \in ids : n <= m

\* C7: the ids returned by the successful add_comment / reply_to_comment
\* calls of a session are M+1, M+2, ... with M the largest numeric comment
\* id at construction (0, 1, 2, ... without one); none is the id of a comment
\* the package came with, none was returned before
C7_CommentIdsMonotonic ==
    \A i \in 1..Len(hist.returned) :
        /\ hist.returned[i] = LargestIdAtConstruction + i
        /\ \A c \in CommentElements(hist.origin[CommentsXml]) :
              GetAttr(c, "w:id") # StrOf(hist.returned[i])
        /\ \A j \in 1..(i - 1) : hist.returned[j] # hist.returned[i]

C7_Witness ==
    /\ Len(hist.returned) >= 2
    /\ LargestIdAtConstruction = 5
    /\ hist.returned[1] = 6

\* the comments of the comments part in memory that carry the id
CommentsWithId(id) ==
    {q \in SeqToSet(ByTagInDoc(mem[CommentsXml].root, "w:comment")) :
        GetAttr(At(mem[CommentsXml].root, q), "w:id") = id}

\* the paragraph ids of the comment at q
ParaIdsOf(q) ==
    {GetAttr(At(mem[CommentsXml].root, p), "w14:paraId") :
        p \in SeqToSet(ByTagUnder(mem[CommentsXml].root, q, "w:p"))} \ {""}

\* the text of the comment at q
BodyOf(q) ==
    ConcatTexts(mem[CommentsXml].root, ByTagUnder(mem[CommentsXml].root, q, "w:t"), 1)

\* the extended-comments entry the k-th successful call appended
EntryOfCall(k) ==
    LET before == IF hist.origin[CommentsExtendedXml].exists
                  THEN Len(hist.origin[CommentsExtendedXml].root.kids) ELSE 0
    IN mem[CommentsExtendedXml].root.kids[before + k]

\* C8: every comment created by a successful call is the one w:comment of
\* the comments part with its id and holds the text it was given; the
\* extended-comments entry of a reply carries the reply's paragraph id and,
\* as parent, the paragraph id of the comment replied to
C8_ThreadLinked ==
    \A k \in 1..Len(hist.created) :
        LET c == hist.created[k]
            own == CommentsWithId(StrOf(c.id))
        IN /\ Cardinality(own) = 1
           /\ \A q \in own : BodyOf(q) = c.text
           /\ \A q \in own : GetAttr(EntryOfCall(k), "w15:paraId") \in ParaIdsOf(q)
           /\ IF c.parent = -1 THEN ~HasAttr(EntryOfCall(k), "w15:paraIdParent")
              ELSE /\ Cardinality(CommentsWithId(StrOf(c.parent))) = 1
                   /\ \A q \in CommentsWithId(StrOf(c.parent)) :
                         GetAttr(EntryOfCall(k), "w15:paraIdParent") \in ParaIdsOf(q)

\* a reply to a reply to a comment the package came with, next to it a
\* comment whose text holds markup characters
C8_Witness ==
    /\ Len(hist.created) >= 2
    /\ \E k \in 1..Len(hist.created), j \in 1..Len(hist.created) :
          /\ hist.created[k].parent = hist.created[j].id
          /\ hist.created[j].parent = 3
          /\ hist.created[k].text = <<"<", "&">>

\* the range markers of the body that carry the id
MarkersWithId(tag, id) ==
    {q \in SeqToSet(ByTagInDoc(mem[DocumentXml].root, tag)) :
        GetAttr(At(mem[DocumentXml].root, q), "w:id") = id}

\* C9: add_comment / reply_to_comment are all-or-nothing: after a call that
\* raised no part keeps a marker or entry with the id the call would have
\* returned, and no id marks two ranges of the body
C9_AllOrNothing ==
    /\ (hist.last.op \in {"add_comment", "reply_to_comment"} /\ hist.last.raised)
          => \A tag \in {"w:commentRangeStart", "w:commentRangeEnd", "w:commentReference"} :
                MarkersWithId(tag, StrOf(sess.next_comment_id)) = {}
    /\ \A id \in 0..(MaxParent + MaxCalls) :
          Cardinality(MarkersWithId("w:commentRangeStart", StrOf(id))) <= 1

\* ------------------------------------------------------------------------
\* BaseSchemaValidator.validate_unique_ids
\*
\* A part as lxml parses it: an element is [tag, attrib, kids] where a name
\* is [ns, local] (lxml's "{uri}local", the namespace written here by its
\* usual prefix) and attrib is the sequence of the attributes in document
\* order, which is the order of elem.attrib.items().  root.iter() also
\* yields the comment nodes of the part; their tag is the function
\* lxml.etree.Comment, not a string.
\*
\* In this specification chk.pkg maps each part of the unpacked package to
\* its root element and chk.result is what the last run returned.
\* ------------------------------------------------------------------------
MaxElems == 3

QName(ns, local) == [ns |-> ns, local |-> local]

LxmlElem(tag, attrib, kids) == [tag |-> tag, attrib |-> attrib, kids |-> kids]

LxmlAttr(ns, local, value) == [name |-> QName(ns, local), value |-> value]

\* the tag of a comment node
CommentTag == QName("#", "Comment")

AlternateContentTag == QName("mc", "AlternateContent")

\* str.lower() on the names that occur
Lower(s) ==
    CASE s = "sldId" -> "sldid"
      [] s = "sldMasterId" -> "sldmasterid"
      [] s = "sldLayoutId" -> "sldlayoutid"
      [] s = "cNvPr" -> "cnvpr"
      [] s = "sldIdLst" -> "sldidlst"
      [] s = "sldLayoutIdLst" -> "sldlayoutidlst"
      [] s = "AlternateContent" -> "alternatecontent"
      [] s = "Choice" -> "choice"
      [] OTHER -> s

\* element kind -> (attribute holding the id, scope of its uniqueness)
UNIQUE_ID_REQUIREMENTS ==
    [comment |-> <<"id", "file">>, commentrangestart |-> <<"id", "file">>,
     commentrangeend |-> <<"id", "file">>, bookmarkstart |-> <<"id", "file">>,
     bookmarkend |-> <<"id", "file">>,
     sldid |-> <<"id", "file">>, sldmasterid |-> <<"id", "global">>,
     sldlayoutid |-> <<"id", "global">>, cm |-> <<"authorid", "file">>,
     sheet |-> <<"sheetid", "file">>, definedname |-> <<"id", "file">>,
     cxnsp |-> <<"id", "file">>, sp |-> <<"id", "file">>, pic |-> <<"id", "file">>,
     grpsp |-> <<"id", "file">>]

RECURSIVE StripKids(_, _)
\* "for elem in mc_elements: elem.getparent().remove(elem)": every
\* descendant mc:AlternateContent goes with its subtree (the root stays)
StripAlternateContent(e) == [e EXCEPT !.kids = StripKids(e.kids, 1)]

StripKids(kids, i) ==
    IF i > Len(kids) THEN <<>>
    ELSE IF kids[i].tag = AlternateContentTag THEN StripKids(kids, i + 1)
    ELSE <<StripAlternateContent(kids[i])>> \o StripKids(kids, i + 1)

RECURSIVE root_iter(_), IterKids(_, _)
\* root.iter(): the nodes of the tree in document order
root_iter(e) == <<e>> \o IterKids(e.kids, 1)

IterKids(kids, i) ==
    IF i > Len(kids) THEN <<>> ELSE root_iter(kids[i]) \o IterKids(kids, i + 1)

RECURSIVE FirstAttrib(_, _, _)
\* "for attr, value in elem.attrib.items(): ... if attr_local == attr_name:
\* id_value = value; break": the first attribute, in document order, whose
\* lower-cased local name is attr_name, whatever its namespace
FirstAttrib(attrib, attr_name, i) ==
    IF i > Len(attrib) THEN None
    ELSE IF Lower(attrib[i].name.local) = attr_name THEN Some(attrib[i].value)
    ELSE FirstAttrib(attrib, attr_name, i + 1)

IdError(file, scope, tag, value) ==
    [file |-> file, scope |-> scope, tag |-> tag, value |-> value]

\* one turn of "for elem in root.iter()"; st.raised: an exception has ended
\* the loop over this part
CheckElem(st, file, e) ==
    IF st.raised THEN st
    ELSE IF e.tag = CommentTag
    THEN \* '"}" in elem.tag' raises TypeError, caught by "except Exception"
         [st EXCEPT !.raised = TRUE,
                    !.errors = Append(@, IdError(file, "exception", "", ""))]
    ELSE LET tag == Lower(e.tag.local)
         IN IF tag \notin DOMAIN UNIQUE_ID_REQUIREMENTS THEN st
            ELSE LET attr_name == UNIQUE_ID_REQUIREMENTS[tag][1]
                     scope == UNIQUE_ID_REQUIREMENTS[tag][2]
                     id_value == FirstAttrib(e.attrib, attr_name, 1)
                 IN IF id_value = None THEN st
                    ELSE IF scope = "global"
                    THEN IF id_value[1] \in st.global_ids
                         THEN [st EXCEPT !.errors =
                                  Append(@, IdError(file, "global", tag, id_value[1]))]
                         ELSE [st EXCEPT !.global_ids = @ \cup {id_value[1]}]
                    ELSE IF <<tag, attr_name, id_value[1]>> \in st.file_ids
                         THEN [st EXCEPT !.errors =
                                  Append(@, IdError(file, "file", tag, id_value[1]))]
                         ELSE [st EXCEPT !.file_ids = @ \cup {<<tag, attr_name, id_value[1]>>}]

RECURSIVE CheckElems(_, _, _, _)
CheckElems(st, file, elems, i) ==
    IF i > Len(elems) THEN st
    ELSE Strict(CheckElem(st, file, elems[i]),
                LAMBDA t : CheckElems(t, file, elems, i + 1))

RECURSIVE CheckFiles(_, _, _, _)
\* "for xml_file in self.xml_files": file_ids starts empty for each part,
\* global_ids and errors are carried from part to part
CheckFiles(st, pkg, xml_files, i) ==
    IF i > Len(xml_files) THEN st
    ELSE Strict(CheckElems([st EXCEPT !.file_ids = {}, !.raised = FALSE], xml_files[i],
                           root_iter(StripAlternateContent(pkg[xml_files[i]])), 1),
                LAMBDA t : CheckFiles(t, pkg, xml_files, i + 1))

\* validate_unique_ids over the parts in the order rglob listed them
validate_unique_ids(pkg, xml_files) ==
    LET st == CheckFiles([errors |-> <<>>, global_ids |-> {}, file_ids |-> {},
                          raised |-> FALSE], pkg, xml_files, 1)
    IN [ok |-> st.errors = <<>>, errors |-> st.errors]

PresentationXml == "ppt/presentation.xml"

SlideMasterXml == "ppt/slideMasters/slideMaster1.xml"

IdParts == {PresentationXml, SlideMasterXml}

\* the orders in which Path.rglob can list the parts
ListingOrders == {<<PresentationXml, SlideMasterXml>>, <<SlideMasterXml, PresentationXml>>}

IdAttr(v) == LxmlAttr("", "id", v)

RIdAttr(v) == LxmlAttr("r", "id", v)

\* what an edit of a part can write into it
IdElements ==
    {LxmlElem(QName("p", "sldId"), <<IdAttr("256"), RIdAttr("rId1")>>, <<>>),
     LxmlElem(QName("p", "sldId"), <<IdAttr("257"), RIdAttr("rId2")>>, <<>>),
     LxmlElem(QName("p", "sldId"), <<RIdAttr("rId1"), IdAttr("256")>>, <<>>),
     LxmlElem(QName("p", "sldId"), <<RIdAttr("rId2"), IdAttr("256")>>, <<>>),
     LxmlElem(QName("p", "sldMasterId"), <<IdAttr("256"), RIdAttr("rId1")>>, <<>>),
     LxmlElem(QName("p", "sldLayoutId"), <<IdAttr("256"), RIdAttr("rId1")>>, <<>>),
     LxmlElem(QName("p", "sldLayoutId"), <<RIdAttr("rId1"), IdAttr("257")>>, <<>>),
     LxmlElem(QName("p", "cNvPr"), <<IdAttr("256")>>, <<>>),
     LxmlElem(CommentTag, <<>>, <<>>)}

InAlternateContent(e) ==
    LxmlElem(AlternateContentTag, <<>>, <<LxmlElem(QName("mc", "Choice"), <<>>, <<e>>)>>)

InitIds ==
    /\ chk = [pkg |-> [f \in IdParts |->
                         LxmlElem(QName("p", IF f = PresentationXml THEN "presentation"
                                             ELSE "sldMaster"), <<>>, <<>>)],
              result |-> NotRun]
    /\ dom = Idle /\ base = Idle /\ author = Idle /\ nops = 0 /\ last = Idle
    /\ direct = FALSE
    /\ mem = Idle /\ disk = Idle /\ sess = Idle /\ hist = Idle /\ xsd = Idle

\* an edit appends an element to a part, directly or inside an
\* mc:AlternateContent block
WriteElement ==
    /\ nops < MaxElems
    /\ \E f \in IdParts, e \in IdElements, wrapped \in BOOLEAN :
          chk' = [pkg |-> [chk.pkg EXCEPT ![f].kids =
                              Append(@, IF wrapped THEN InAlternateContent(e) ELSE e)],
                  result |-> NotRun]
    /\ nops' = nops + 1
    /\ UNCHANGED <<dom, base, last, direct, author, sessionVars, xsd>>

ValidateUniqueIds ==
    /\ chk.result = NotRun
    /\ \E xml_files \in ListingOrders :
          chk' = [chk EXCEPT !.result = validate_unique_ids(chk.pkg, xml_files)]
    /\ UNCHANGED <<treeVars, author, sessionVars, xsd>>

NextIds == WriteElement \/ ValidateUniqueIds

SpecIds == InitIds /\ [][NextIds]_vars

\* the elements of a part outside its alternate-content blocks
OutsideAlternateContent(f) ==
    LET nodes == root_iter(StripAlternateContent(chk.pkg[f]))
    IN {<<f, i>> : i \in {j \in 1..Len(nodes) : nodes[j].tag # CommentTag}}

NodeAt(o) == root_iter(StripAlternateContent(chk.pkg[o[1]]))[o[2]]

KindOf(o) == Lower(NodeAt(o).tag.local)

ScopeOf(o) ==
    IF KindOf(o) \in DOMAIN UNIQUE_ID_REQUIREMENTS
    THEN UNIQUE_ID_REQUIREMENTS[KindOf(o)][2] ELSE "none"

\* the id of an element of a listed kind: its own attribute of the required
\* name (unqualified, or in the element's namespace), never the
\* relationship reference r:id
OwnIds(o) ==
    LET e == NodeAt(o)
    IN {e.attrib[i].value : i \in {j \in 1..Len(e.attrib) :
            /\ Lower(e.attrib[j].name.local) = UNIQUE_ID_REQUIREMENTS[KindOf(o)][1]
            /\ e.attrib[j].name.ns \in {"", e.tag.ns}}}

Occurrences(scope) ==
    {o \in UNION {OutsideAlternateContent(f) : f \in IdParts} :
        ScopeOf(o) = scope /\ OwnIds(o) # {}}

\* k elements sharing an id in one scope are k - 1 violations
SharedInFile ==
    Cardinality(Occurrences("file"))
      - Cardinality({<<o[1], KindOf(o), OwnIds(o)>> : o \in Occurrences("file")})

SharedGlobally ==
    Cardinality(Occurrences("global"))
      - Cardinality({OwnIds(o) : o \in Occurrences("global")})

\* C18: on well-formed parts validate_unique_ids fails exactly when, outside
\* alternate-content blocks, two elements of one file-scoped kind of one
\* part, or two elements of global-scoped kinds anywhere in the package,
\* share an id; a value used in two parts for a file-scoped kind is not
\* reported, and k elements sharing a value are k - 1 violations
C18_UniqueIds ==
    chk.result # NotRun =>
        /\ chk.result.ok <=> (SharedInFile + SharedGlobally = 0)
        /\ Len(chk.result.errors) = SharedInFile + SharedGlobally

\* ------------------------------------------------------------------------
\* BaseSchemaValidator.validate_file_references
\*
\* A file of the unpacked package is named by its path below unpacked_dir,
\* a sequence of segments.  A Target is the string of the attribute, kept
\* as what the code looks at: lead is how the string begins ("" for a plain
\* path), abs whether it begins with "/", segs its "/"-separated segments.
\* In this specification chk.files is the set of files that are not
\* relationship files, chk.rels maps each relationship file to the sequence
\* of its Relationship elements and chk.result is what the last run
\* returned.
\* ------------------------------------------------------------------------
MaxRefEdits == 3

ContentTypesXml == <<"[Content_Types].xml">>

WordDocumentXml == <<"word", "document.xml">>

Image1Png == <<"word", "media", "image1.png">>

RootRels == <<"_rels", ".rels">>

DocumentRels == <<"word", "_rels", "document.xml.rels">>

\* Path.name
PathName(p) == p[Len(p)]

\* name.endswith(".rels") on the names that occur
EndsWithRels(name) == name \in {".rels", "document.xml.rels"}

TargetOf(lead, abs, segs) == [lead |-> lead, abs |-> abs, segs |-> segs]

Relationship(target, mode) == [Target |-> target, TargetMode |-> mode]

\* target.startswith(("http", "mailto:"))
StartsWithHttpOrMailto(target) == target.lead \in {"http", "mailto:"}

\* a path that left unpacked_dir (an absolute Target, or ".." above the root)
Outside == <<"/", "outside">>

RECURSIVE ResolveFrom(_, _, _)
\* Path.resolve() of base / segs: ".." steps to the parent
ResolveFrom(acc, segs, i) ==
    IF acc = Outside \/ i > Len(segs) THEN acc
    ELSE IF segs[i] = ".."
    THEN IF acc = <<>> THEN Outside
         ELSE ResolveFrom(SubSeq(acc, 1, Len(acc) - 1), segs, i + 1)
    ELSE ResolveFrom(Append(acc, segs[i]), segs, i + 1)

\* "if rels_file.name == '.rels': target_path = self.unpacked_dir / target
\*  else: target_path = rels_dir.parent / target"; pathlib's "/" drops the
\* left operand when the right one is absolute
target_path(rels_file, target) ==
    IF target.abs THEN Outside
    ELSE ResolveFrom(IF PathName(rels_file) = ".rels" THEN <<>>
                     ELSE SubSeq(rels_file, 1, Len(rels_file) - 2),
                     target.segs, 1)

\* the Relationship elements of one relationship file whose Target is looked up
LookedUp(rels, rels_file) ==
    {k \in 1..Len(rels[rels_file]) :
        /\ rels[rels_file][k].Target.segs # <<>>
        /\ ~StartsWithHttpOrMailto(rels[rels_file][k].Target)}

validate_file_references(files, rels) ==
    IF DOMAIN rels = {} THEN [ok |-> TRUE, broken |-> {}, unreferenced |-> {}]
    ELSE LET on_disk == files \cup DOMAIN rels
             all_files == {f \in on_disk : /\ PathName(f) # "[Content_Types].xml"
                                           /\ ~EndsWithRels(PathName(f))}
             found == {rk \in UNION {{<<r, k>> : k \in LookedUp(rels, r)} : r \in DOMAIN rels} :
                          target_path(rk[1], rels[rk[1]][rk[2]].Target) \in on_disk}
             broken_refs == UNION {{<<r, k>> : k \in LookedUp(rels, r)} : r \in DOMAIN rels}
                               \ found
             all_referenced_files ==
                 {target_path(rk[1], rels[rk[1]][rk[2]].Target) : rk \in found}
             unreferenced_files == all_files \ all_referenced_files
         IN [ok |-> broken_refs = {} /\ unreferenced_files = {},
             broken |-> broken_refs, unreferenced |-> unreferenced_files]

OtherFiles == {ContentTypesXml, WordDocumentXml, Image1Png, <<"docProps", "thumbnail.jpeg">>}

RelsFiles == {RootRels, DocumentRels}

Internal == "Internal"

External == "External"

\* the Relationship elements an edit can write
Relationships ==
    {Relationship(TargetOf("", FALSE, <<"word", "document.xml">>), Internal),
     Relationship(TargetOf("", FALSE, <<"media", "image1.png">>), Internal),
     Relationship(TargetOf("", FALSE, <<"..", "docProps", "thumbnail.jpeg">>), Internal),
     Relationship(TargetOf("", TRUE, <<"word", "media", "image1.png">>), Internal),
     Relationship(TargetOf("http", FALSE, <<"https:", "", "example.com">>), External),
     Relationship(TargetOf("tel:", FALSE, <<"tel:555">>), External)}

InitRefs ==
    /\ chk = [files |-> {ContentTypesXml, WordDocumentXml, Image1Png},
              rels |-> [r \in RelsFiles |->
                          IF r = RootRels
                          THEN <<Relationship(TargetOf("", FALSE, <<"word", "document.xml">>), Internal)>>
                          ELSE <<Relationship(TargetOf("", FALSE, <<"media", "image1.png">>), Internal)>>],
              result |-> NotRun]
    /\ dom = Idle /\ base = Idle /\ author = Idle /\ nops = 0 /\ last = Idle
    /\ direct = FALSE
    /\ mem = Idle /\ disk = Idle /\ sess = Idle /\ hist = Idle /\ xsd = Idle

\* edits of the unpacked package between two runs
WriteFile ==
    /\ nops < MaxRefEdits
    /\ \E f \in OtherFiles \ chk.files :
          chk' = [chk EXCEPT !.files = @ \cup {f}, !.result = NotRun]
    /\ nops' = nops + 1
    /\ UNCHANGED <<dom, base, last, direct, author, sessionVars, xsd>>

DeleteFile ==
    /\ nops < MaxRefEdits
    /\ \/ \E f \in chk.files :
             chk' = [chk EXCEPT !.files = @ \ {f}, !.result = NotRun]
       \/ \E r \in DOMAIN chk.rels :
             chk' = [chk EXCEPT !.rels = [q \in DOMAIN chk.rels \ {r} |-> chk.rels[q]],
                                !.result = NotRun]
    /\ nops' = nops + 1
    /\ UNCHANGED <<dom, base, last, direct, author, sessionVars, xsd>>

AddRelationship ==
    /\ nops < MaxRefEdits
    /\ \E r \in DOMAIN chk.rels, rel \in Relationships :
          chk' = [chk EXCEPT !.rels[r] = Append(@, rel), !.result = NotRun]
    /\ nops' = nops + 1
    /\ UNCHANGED <<dom, base, last, direct, author, sessionVars, xsd>>

DropRelationship ==
    /\ nops < MaxRefEdits
    /\ \E r \in DOMAIN chk.rels :
          /\ chk.rels[r] # <<>>
          /\ chk' = [chk EXCEPT !.rels[r] = SubSeq(@, 1, Len(@) - 1), !.result = NotRun]
    /\ nops' = nops + 1
    /\ UNCHANGED <<dom, base, last, direct, author, sessionVars, xsd>>

ValidateFileReferences ==
    /\ chk.result = NotRun
    /\ chk' = [chk EXCEPT !.result = validate_file_references(chk.files, chk.rels)]
    /\ UNCHANGED <<treeVars, author, sessionVars, xsd>>

NextRefs == WriteFile \/ DeleteFile \/ AddRelationship \/ DropRelationship
               \/ ValidateFileReferences

SpecRefs == InitRefs /\ [][NextRefs]_vars

\* the relationships of the package, each named by its file and position
AllRelationships ==
    UNION {{<<r, k>> : k \in 1..Len(chk.rels[r])} : r \in DOMAIN chk.rels}

IsInternal(rk) == chk.rels[rk[1]][rk[2]].TargetMode # External

\* the part an internal relationship names: its Target resolved against the
\* directory of the source part, or against the package root when it begins
\* with "/"
NamedPart(rk) ==
    LET target == chk.rels[rk[1]][rk[2]].Target
    IN ResolveFrom(IF target.abs \/ PathName(rk[1]) = ".rels" THEN <<>>
                   ELSE SubSeq(rk[1], 1, Len(rk[1]) - 2),
                   target.segs, 1)

BrokenReferences ==
    {rk \in AllRelationships : IsInternal(rk) /\ NamedPart(rk) \notin chk.files \cup DOMAIN chk.rels}

OrphanedFiles ==
    {f \in chk.files :
        /\ f # ContentTypesXml
        /\ \A rk \in AllRelationships : ~(IsInternal(rk) /\ NamedPart(rk) = f)}

\* C19: validate_file_references reports each internal relationship target
\* that does not exist as a file as a broken reference and each file, other
\* than the content-types file and the relationship files, that no
\* relationship targets as orphaned, and passes exactly when there is
\* neither; the violations are reported one for one, so that removing one
\* condition removes its violation and no other
C19_FileReferences ==
    chk.result # NotRun =>
        /\ chk.result.broken = BrokenReferences
        /\ chk.result.unreferenced = OrphanedFiles
        /\ chk.result.ok <=> (BrokenReferences = {} /\ OrphanedFiles = {})

\* ------------------------------------------------------------------------
\* BaseSchemaValidator.validate_all_relationship_ids (as PPTXSchemaValidator
\* runs it, with the ELEMENT_RELATIONSHIP_TYPES of pptx.py)
\*
\* In this specification chk.parts maps each XML part to the sequence of its
\* elements in document order, chk.rels maps each relationship file that
\* exists to the sequence of its Relationship elements ([Id, Type]) and
\* chk.result is what the last run returned.
\* ------------------------------------------------------------------------
MaxRidEdits == 3

\* dir/file.xml -> dir/_rels/file.xml.rels
CompanionRels(xml_file) ==
    CASE xml_file = PresentationXml -> "ppt/_rels/presentation.xml.rels"
      [] xml_file = SlideMasterXml -> "ppt/slideMasters/_rels/slideMaster1.xml.rels"

\* elem.get("{officeDocument relationships}id")
GetRId(e) ==
    LET at == {k \in 1..Len(e.attrib) : e.attrib[k].name = QName("r", "id")}
    IN IF at = {} THEN None ELSE Some(e.attrib[CHOOSE k \in at : TRUE].value)

\* PPTXSchemaValidator.ELEMENT_RELATIONSHIP_TYPES
ELEMENT_RELATIONSHIP_TYPES ==
    [sldid |-> "slide", sldmasterid |-> "slidemaster", notesmasterid |-> "notesmaster",
     sldlayoutid |-> "slidelayout", themeid |-> "theme", tablestyleid |-> "tablestyles"]

\* _get_expected_relationship_type on the element names that occur
get_expected_relationship_type(element_name) ==
    IF Lower(element_name) \in DOMAIN ELEMENT_RELATIONSHIP_TYPES
    THEN Some(ELEMENT_RELATIONSHIP_TYPES[Lower(element_name)])
    ELSE None

\* rel_type.split("/")[-1], lower-cased: the relationship types that occur
\* are named by that last segment
TypeNameLower(type) ==
    CASE type = "slideMaster" -> "slidemaster"
      [] type = "slideLayout" -> "slidelayout"
      [] OTHER -> type

\* "expected_type in actual_type.lower()" on the type names that occur
TypeContains(actual, expected) ==
    \/ actual = expected
    \/ expected = "slide" /\ actual \in {"slidemaster", "slidelayout"}

RidError(kind, file, k) == [kind |-> kind, file |-> file, at |-> k]

\* the Relationship elements of a file that repeat the Id of an earlier one
DuplicateRIds(rels_file, rs) ==
    {RidError("duplicate", rels_file, k) :
        k \in {j \in 1..Len(rs) : rs[j].Id # "" /\ \E h \in 1..(j - 1) : rs[h].Id = rs[j].Id}}

\* rid_to_type: the Type the last Relationship with each Id declares
RidToType(rs) ==
    [rid \in {rs[k].Id : k \in {j \in 1..Len(rs) : rs[j].Id # ""}} |->
        rs[CHOOSE k \in 1..Len(rs) :
              rs[k].Id = rid /\ \A h \in (k + 1)..Len(rs) : rs[h].Id # rid].Type]

\* "for elem in xml_root.iter()": what one element adds to errors
CheckRId(xml_file, elems, k, rid_to_type) ==
    LET rid_attr == GetRId(elems[k])
    IN IF rid_attr = None \/ rid_attr = Some("") THEN {}
       ELSE IF rid_attr[1] \notin DOMAIN rid_to_type
       THEN {RidError("non-existent", xml_file, k)}
       ELSE LET expected_type == get_expected_relationship_type(elems[k].tag.local)
            IN IF expected_type # None
                  /\ ~TypeContains(TypeNameLower(rid_to_type[rid_attr[1]]), expected_type[1])
               THEN {RidError("type", xml_file, k)} ELSE {}

\* one turn of "for xml_file in self.xml_files"
CheckPart(parts, rels, xml_file) ==
    IF CompanionRels(xml_file) \notin DOMAIN rels THEN {}
    ELSE DuplicateRIds(CompanionRels(xml_file), rels[CompanionRels(xml_file)])
            \cup UNION {CheckRId(xml_file, parts[xml_file], k,
                                 RidToType(rels[CompanionRels(xml_file)])) :
                           k \in 1..Len(parts[xml_file])}

validate_all_relationship_ids(parts, rels) ==
    LET errors == UNION {CheckPart(parts, rels, xml_file) : xml_file \in DOMAIN parts}
    IN [ok |-> errors = {}, errors |-> errors]

\* the elements and Relationship elements an edit can write
RidElements ==
    {LxmlElem(QName("p", "sldId"), <<IdAttr("256"), RIdAttr("rId1")>>, <<>>),
     LxmlElem(QName("p", "sldId"), <<IdAttr("257"), RIdAttr("rId2")>>, <<>>),
     LxmlElem(QName("p", "sldId"), <<IdAttr("258"), RIdAttr("")>>, <<>>),
     LxmlElem(QName("p", "sldLayoutId"), <<IdAttr("259"), RIdAttr("rId1")>>, <<>>),
     LxmlElem(QName("p", "cNvPr"), <<IdAttr("2")>>, <<>>)}

Declarations ==
    {[Id |-> "rId1", Type |-> "slide"], [Id |-> "rId2", Type |-> "slide"],
     [Id |-> "rId1", Type |-> "slideLayout"], [Id |-> "rId2", Type |-> "theme"]}

InitRids ==
    /\ chk = [parts |-> [f \in IdParts |->
                           IF f = PresentationXml
                           THEN <<LxmlElem(QName("p", "presentation"), <<>>, <<>>),
                                  LxmlElem(QName("p", "sldId"),
                                           <<IdAttr("256"), RIdAttr("rId1")>>, <<>>)>>
                           ELSE <<LxmlElem(QName("p", "sldMaster"), <<>>, <<>>)>>],
              rels |-> [r \in {CompanionRels(PresentationXml)} |->
                          <<[Id |-> "rId1", Type |-> "slide"]>>],
              result |-> NotRun]
    /\ dom = Idle /\ base = Idle /\ author = Idle /\ nops = 0 /\ last = Idle
    /\ direct = FALSE
    /\ mem = Idle /\ disk = Idle /\ sess = Idle /\ hist = Idle /\ xsd = Idle

\* edits of the unpacked package between two runs
WriteReference ==
    /\ nops < MaxRidEdits
    /\ \E f \in IdParts, e \in RidElements :
          chk' = [chk EXCEPT !.parts[f] = Append(@, e), !.result = NotRun]
    /\ nops' = nops + 1
    /\ UNCHANGED <<dom, base, last, direct, author, sessionVars, xsd>>

DeclareRelationship ==
    /\ nops < MaxRidEdits
    /\ \E f \in IdParts, d \in Declarations :
          chk' = [chk EXCEPT
                    !.rels = [r \in DOMAIN chk.rels \cup {CompanionRels(f)} |->
                                 IF r = CompanionRels(f)
                                 THEN (IF r \in DOMAIN chk.rels THEN chk.rels[r] ELSE <<>>) \o <<d>>
                                 ELSE chk.rels[r]],
                    !.result = NotRun]
    /\ nops' = nops + 1
    /\ UNCHANGED <<dom, base, last, direct, author, sessionVars, xsd>>

DeleteRels ==
    /\ nops < MaxRidEdits
    /\ \E r \in DOMAIN chk.rels :
          chk' = [chk EXCEPT !.rels = [q \in DOMAIN chk.rels \ {r} |-> chk.rels[q]],
                             !.result = NotRun]
    /\ nops' = nops + 1
    /\ UNCHANGED <<dom, base, last, direct, author, sessionVars, xsd>>

ValidateAllRelationshipIds ==
    /\ chk.result = NotRun
    /\ chk' = [chk EXCEPT !.result = validate_all_relationship_ids(chk.parts, chk.rels)]
    /\ UNCHANGED <<treeVars, author, sessionVars, xsd>>

NextRids == WriteReference \/ DeclareRelationship \/ DeleteRels \/ ValidateAllRelationshipIds

SpecRids == InitRids /\ [][NextRids]_vars

\* the Ids the companion relationship file of a part declares
DeclaredIds(f) ==
    IF CompanionRels(f) \in DOMAIN chk.rels
    THEN {chk.rels[CompanionRels(f)][k].Id : k \in 1..Len(chk.rels[CompanionRels(f)])}
    ELSE {}

\* the elements that carry an r:id reference that does not resolve
Unresolved ==
    UNION {{<<f, k>> : k \in {j \in 1..Len(chk.parts[f]) :
                /\ GetRId(chk.parts[f][j]) # None
                /\ GetRId(chk.parts[f][j])[1] \notin DeclaredIds(f)}} : f \in IdParts}

\* C20: validate_all_relationship_ids reports every element whose r:id
\* reference is not the Id of a Relationship of the part's companion
\* relationship file, and fails then; it passes only if every r:id
\* reference of every part resolves in the companion file
C20_RelationshipIdsResolve ==
    chk.result # NotRun =>
        /\ \A u \in Unresolved :
              RidError("non-existent", u[1], u[2]) \in chk.result.errors
        /\ chk.result.ok => Unresolved = {}

\* ------------------------------------------------------------------------
\* Claims on the comment operations of a session
\* ------------------------------------------------------------------------
\* the comment ids the session does not know
UnknownParents == (0..MaxParent) \ DOMAIN sess.existing_comments

\* C21: reply_to_comment with a parent id that the session does not know
\* fails before anything is written: no part is modified (neither an editor
\* nor a file), no comment id is consumed and the table of known comments
\* is unchanged
C21_UnknownParentFails ==
    hist.constructed =>
        \A parent \in UnknownParents, text \in CommentTexts, para_id \in HexIds :
            LET r == reply_to_comment(World, parent, text, para_id, "0000000B", Ctx)
            IN r.raised /\ r.w = World

\* a session that knows comment 3 and whose first call, a reply, failed
\* and left the body as it was: the parent was unknown
C21_Witness ==
    /\ hist.constructed /\ hist.calls = 1
    /\ hist.last.op = "reply_to_comment" /\ hist.last.raised
    /\ 3 \in DOMAIN sess.existing_comments
    /\ ByTagInDoc(mem[DocumentXml].root, "w:commentRangeStart")
          = ByTagInDoc(hist.origin[DocumentXml].root, "w:commentRangeStart")

\* ------------------------------------------------------------------------
\* pack.py: pack_document with validation, validate_document
\*
\* In this specification disk.input is what input_dir names (a directory
\* with its files, or something that is not a directory), disk.output the
\* archive at output_file (NoDirectory while there is no such file) and
\* last the last call: its arguments, what the soffice run did, and what
\* the call returned or raised.
\* ------------------------------------------------------------------------
\* what subprocess.run of soffice can do: write the .html file, exit
\* without writing it, or raise
SofficeOutcomes == {"html written", "no html", "FileNotFoundError", "TimeoutExpired", "OSError"}

\* validate_document(doc_path)
validate_document(soffice) ==
    CASE soffice = "html written" -> TRUE
      [] soffice = "no html" -> FALSE
      [] soffice = "FileNotFoundError" -> TRUE
      [] soffice = "TimeoutExpired" -> FALSE
      [] OTHER -> FALSE

\* str.lower() on the suffixes that occur
SuffixLower(suffix) == IF suffix = ".DOCX" THEN ".docx" ELSE suffix

\* pack_document(input_dir, output_file, validate): output is the file at
\* output_file before the call
pack_document_validated(input, output, suffix, validate, soffice) ==
    IF ~input.is_dir THEN [raised |-> TRUE, returned |-> FALSE, output |-> output]
    ELSE IF SuffixLower(suffix) \notin {".docx", ".pptx", ".xlsx"}
    THEN [raised |-> TRUE, returned |-> FALSE, output |-> output]
    ELSE IF validate /\ ~validate_document(soffice)
    THEN \* output_file.unlink()
         [raised |-> FALSE, returned |-> FALSE, output |-> NoDirectory]
    ELSE [raised |-> FALSE, returned |-> TRUE, output |-> pack_document(input.files)]

Directory(files) == [is_dir |-> TRUE, files |-> files]

NotADirectory == [is_dir |-> FALSE, files |-> NoDirectory]

PackInputs == {Directory(PlainPackage), Directory(CommentedPackage), NotADirectory}

Suffixes == {".docx", ".DOCX", ".txt"}

InitPack ==
    /\ \E input \in PackInputs : disk = [input |-> input, output |-> NoDirectory]
    /\ last = [op |-> "none", suffix |-> ".docx", validate |-> FALSE, soffice |-> "not run",
               raised |-> FALSE, returned |-> FALSE]
    /\ dom = Idle /\ base = Idle /\ author = Idle /\ nops = 0 /\ direct = FALSE
    /\ mem = Idle /\ sess = Idle /\ hist = Idle /\ xsd = Idle /\ chk = Idle

\* pack_document(input_dir, output_file) without validation
Pack ==
    /\ \E suffix \in Suffixes :
          LET r == pack_document_validated(disk.input, disk.output, suffix, FALSE, "not run")
          IN /\ disk' = [disk EXCEPT !.output = r.output]
             /\ last' = [op |-> "pack_document", suffix |-> suffix, validate |-> FALSE,
                         soffice |-> "not run", raised |-> r.raised, returned |-> r.returned]
    /\ UNCHANGED <<dom, base, nops, direct, author, mem, sess, hist, xsd, chk>>

\* pack_document(input_dir, output_file, validate=True)
PackValidated ==
    /\ \E suffix \in Suffixes, soffice \in SofficeOutcomes :
          LET r == pack_document_validated(disk.input, disk.output, suffix, TRUE, soffice)
          IN /\ disk' = [disk EXCEPT !.output = r.output]
             /\ last' = [op |-> "pack_document", suffix |-> suffix, validate |-> TRUE,
                         soffice |-> IF r.raised THEN "not run" ELSE soffice,
                         raised |-> r.raised, returned |-> r.returned]
    /\ UNCHANGED <<dom, base, nops, direct, author, mem, sess, hist, xsd, chk>>

\* the directory is replaced by another one between two calls
ChangeInput ==
    /\ \E input \in PackInputs \ {disk.input} : disk' = [disk EXCEPT !.input = input]
    /\ last' = [last EXCEPT !.op = "input changed"]
    /\ UNCHANGED <<dom, base, nops, direct, author, mem, sess, hist, xsd, chk>>

NextPack == Pack \/ PackValidated \/ ChangeInput

SpecPack == InitPack /\ [][NextPack]_vars

\* C22: in pack_document with validation enabled, a missing soffice and a
\* timeout of soffice are warnings, not failures: in either case the call
\* returns True and the packed output file is kept
C22_ToolTroubleIsWarning ==
    (last.op = "pack_document" /\ last.validate
        /\ last.soffice \in {"FileNotFoundError", "TimeoutExpired"}) =>
        /\ last.returned
        /\ disk.output = pack_document(disk.input.files)

\* ------------------------------------------------------------------------
\* check_bounding_boxes.py: get_bounding_box_messages
\*
\* A rectangle is <<left, top, right, bottom>>.  A field of fields.json is
\* [description, page_number, label_bounding_box, entry_bounding_box,
\* entry_text], where entry_text is None when the key is absent and
\* otherwise Some of a dict whose font_size may be absent.  A message is
\* kept as [kind, i, j]: what it says and the positions, in
\* rects_and_fields, of the boxes it names.  In this specification
\* chk.fields is the list form_fields and chk.messages what the last call
\* returned.
\* ------------------------------------------------------------------------
MaxFields == 4

\* "if len(messages) >= 20"
MessageLimit == 20

\* entry_text.get("font_size", 14)
DefaultFontSize == 14

\* a variant that counts boxes sharing an edge as intersecting
rects_intersect_touching(r1, r2) ==
    ~((r1[1] > r2[3] \/ r1[3] < r2[1]) \/ (r1[2] > r2[4] \/ r1[4] < r2[2]))

rects_intersect(r1, r2) ==
    LET disjoint_horizontal == r1[1] >= r2[3] \/ r1[3] <= r2[1]
        disjoint_vertical == r1[2] >= r2[4] \/ r1[4] <= r2[2]
    IN ~(disjoint_horizontal \/ disjoint_vertical)

RECURSIVE rects_and_fields(_, _)
\* the label box and the entry box of each field, in order
rects_and_fields(fields, k) ==
    IF k > Len(fields) THEN <<>>
    ELSE <<[rect |-> fields[k].label_bounding_box, rect_type |-> "label", field |-> k],
           [rect |-> fields[k].entry_bounding_box, rect_type |-> "entry", field |-> k]>>
         \o rects_and_fields(fields, k + 1)

Message(kind, i, j) == [kind |-> kind, i |-> i, j |-> j]

\* "messages.append(FAILURE ...); if len(messages) >= 20:
\*  messages.append(<stopping notice>); return messages"
Fail(st, m) ==
    IF Len(st.messages) + 1 >= MessageLimit
    THEN [messages |-> st.messages \o <<m, Message("stopped", 0, 0)>>, has_error |-> TRUE,
          returned |-> TRUE]
    ELSE [messages |-> Append(st.messages, m), has_error |-> TRUE, returned |-> FALSE]

\* lines 47-60: the height of an entry box against the font size
CheckHeight(fields, rf, i, st) ==
    IF rf[i].rect_type # "entry" \/ fields[rf[i].field].entry_text = None THEN st
    ELSE LET given == fields[rf[i].field].entry_text[1].font_size
             font_size == IF given = None THEN DefaultFontSize ELSE given[1]
             entry_height == rf[i].rect[4] - rf[i].rect[2]
         IN IF entry_height < font_size THEN Fail(st, Message("FAILURE: height", i, i))
            ELSE st

RECURSIVE CheckPairs(_, _, _, _, _)
\* "for i, ri in enumerate(rects_and_fields): for j in range(i + 1, ...)"
CheckPairs(fields, rf, i, j, st) ==
    IF st.returned \/ i > Len(rf) THEN st
    ELSE IF j > Len(rf)
    THEN Strict(CheckHeight(fields, rf, i, st),
                LAMBDA t : CheckPairs(fields, rf, i + 1, i + 2, t))
    ELSE IF /\ fields[rf[i].field].page_number = fields[rf[j].field].page_number
            /\ rects_intersect(rf[i].rect, rf[j].rect)
    THEN Strict(Fail(st, Message(IF rf[i].field = rf[j].field
                                 THEN "FAILURE: intersection between label and entry"
                                 ELSE "FAILURE: intersection", i, j)),
                LAMBDA t : CheckPairs(fields, rf, i, j + 1, t))
    ELSE CheckPairs(fields, rf, i, j + 1, st)

get_bounding_box_messages(fields) ==
    LET st == CheckPairs(fields, rects_and_fields(fields, 1), 1, 2,
                         [messages |-> <<Message("Read", Len(fields), 0)>>,
                          has_error |-> FALSE, returned |-> FALSE])
    IN IF st.returned \/ st.has_error THEN st.messages
       ELSE Append(st.messages, Message("SUCCESS", 0, 0))

FormField(page, label, entry, entry_text) ==
    [page_number |-> page, label_bounding_box |-> label, entry_bounding_box |-> entry,
     entry_text |-> entry_text]

\* the boxes of the forms: two that share an edge, one that overlaps both,
\* one of no width inside the first
BoxA == <<10, 10, 50, 30>>

BoxB == <<50, 10, 90, 30>>

BoxC == <<30, 20, 70, 40>>

BoxD == <<20, 15, 20, 25>>

FormFields ==
    {FormField(1, BoxA, BoxB, None),
     FormField(1, BoxC, BoxC, None),
     FormField(2, BoxA, BoxC, Some([font_size |-> None])),
     FormField(1, BoxB, BoxA, Some([font_size |-> Some(24)])),
     FormField(1, BoxD, BoxB, None),
     FormField(2, <<60, 50, 90, 60>>, <<10, 50, 50, 60>>, Some([font_size |-> None]))}

NotChecked == <<>>

InitBoxes ==
    /\ chk = [fields |-> <<>>, messages |-> NotChecked]
    /\ dom = Idle /\ base = Idle /\ author = Idle /\ nops = 0 /\ last = Idle
    /\ direct = FALSE
    /\ mem = Idle /\ disk = Idle /\ sess = Idle /\ hist = Idle /\ xsd = Idle

\* fields.json gets one more field
AddField ==
    /\ Len(chk.fields) < MaxFields
    /\ \E f \in FormFields : chk' = [fields |-> Append(chk.fields, f), messages |-> NotChecked]
    /\ UNCHANGED <<treeVars, author, sessionVars, xsd>>

CheckBoundingBoxes ==
    /\ chk.messages = NotChecked
    /\ chk' = [chk EXCEPT !.messages = get_bounding_box_messages(chk.fields)]
    /\ UNCHANGED <<treeVars, author, sessionVars, xsd>>

NextBoxes == AddField \/ CheckBoundingBoxes

SpecBoxes == InitBoxes /\ [][NextBoxes]_vars

\* the boxes of the form, and the pairs of them
Boxes == rects_and_fields(chk.fields, 1)

BoxPairs == {p \in (1..Len(Boxes)) \X (1..Len(Boxes)) : p[1] < p[2]}

SamePage(p) ==
    chk.fields[Boxes[p[1]].field].page_number = chk.fields[Boxes[p[2]].field].page_number

Least(a, b) == IF a <= b THEN a ELSE b

Greatest(a, b) == IF a >= b THEN a ELSE b

\* the rectangles overlap with positive extent on both axes
PositiveOverlap(r1, r2) ==
    /\ Least(r1[3], r2[3]) - Greatest(r1[1], r2[1]) > 0
    /\ Least(r1[4], r2[4]) - Greatest(r1[2], r2[2]) > 0

\* neither rectangle lies wholly to one side of the other, on either axis
NotSeparated(r1, r2) ==
    /\ r1[1] < r2[3] /\ r2[1] < r1[3]
    /\ r1[2] < r2[4] /\ r2[2] < r1[4]

IntersectionKinds == {"FAILURE: intersection", "FAILURE: intersection between label and entry"}

ReportedPairs ==
    {<<chk.messages[k].i, chk.messages[k].j>> :
        k \in {n \in 1..Len(chk.messages) : chk.messages[n].kind \in IntersectionKinds}}

HasKind(kinds) == \E k \in 1..Len(chk.messages) : chk.messages[k].kind \in kinds

SuccessIffNoFailure ==
    HasKind({"SUCCESS"}) <=> ~HasKind(IntersectionKinds \cup {"FAILURE: height"})

\* C23: an intersection FAILURE is reported for a pair of boxes exactly
\* when they are on the same page and overlap with positive extent on both
\* axes (not for boxes that share only an edge, nor for boxes on different
\* pages), and the output holds a SUCCESS message exactly when it holds no
\* FAILURE message
C23_IntersectionsReported ==
    chk.messages # NotChecked =>
        /\ ReportedPairs =
              {p \in BoxPairs : SamePage(p) /\ PositiveOverlap(Boxes[p[1]].rect, Boxes[p[2]].rect)}
        /\ SuccessIffNoFailure

\* C23 as the code has it: every reported pair is on one page and not
\* separated on either axis, which for boxes of positive width and height
\* is an overlap of positive extent; every such pair is reported unless the
\* output reached the message limit, where the function stops with a notice;
\* SUCCESS is in the output exactly when no FAILURE is
C23_IntersectionsReportedUpToLimit ==
    chk.messages # NotChecked =>
        /\ ReportedPairs \subseteq
              {p \in BoxPairs : SamePage(p) /\ NotSeparated(Boxes[p[1]].rect, Boxes[p[2]].rect)}
        /\ ~HasKind({"stopped"}) =>
              ReportedPairs =
                 {p \in BoxPairs : SamePage(p) /\ NotSeparated(Boxes[p[1]].rect, Boxes[p[2]].rect)}
        /\ HasKind({"stopped"}) <=> Len(chk.messages) = MessageLimit + 1
        /\ \A p \in BoxPairs :
              (Boxes[p[1]].rect[1] < Boxes[p[1]].rect[3] /\ Boxes[p[1]].rect[2] < Boxes[p[1]].rect[4]
               /\ Boxes[p[2]].rect[1] < Boxes[p[2]].rect[3] /\ Boxes[p[2]].rect[2] < Boxes[p[2]].rect[4])
                 => (NotSeparated(Boxes[p[1]].rect, Boxes[p[2]].rect)
                        <=> PositiveOverlap(Boxes[p[1]].rect, Boxes[p[2]].rect))
        /\ SuccessIffNoFailure

\* a checked form, not cut short, with a reported pair, a pair on one page
\* that shares an edge and a pair that overlaps across two pages
C23_Witness ==
    /\ chk.messages # NotChecked /\ ~HasKind({"stopped"})
    /\ ReportedPairs # {}
    /\ \E p \in BoxPairs \ ReportedPairs :
          SamePage(p) /\ Boxes[p[1]].rect[3] = Boxes[p[2]].rect[1]
    /\ \E p \in BoxPairs \ ReportedPairs :
          ~SamePage(p) /\ PositiveOverlap(Boxes[p[1]].rect, Boxes[p[2]].rect)

\* ------------------------------------------------------------------------
\* DOCXSchemaValidator.validate_deletions and validate_insertions, on the
\* body of word/document.xml
\* ------------------------------------------------------------------------
\* some element between the root and q, the root excluded, has the tag
BelowTag(tree, q, tag) == \E k \in 1..(Len(q) - 1) : At(tree, SubSeq(q, 1, k)).tag = tag

\* xpath ".//w:del//w:t", "if t_elem.text": no error is reported
validate_deletions(root) ==
    \A q \in SeqToSet(ByTagInDoc(root, "w:t")) :
        At(root, q).text # <<>> => ~BelowTag(root, q, "w:del")

\* xpath ".//w:ins//w:delText[not(ancestor::w:del)]": no error is reported
validate_insertions(root) ==
    \A q \in SeqToSet(ByTagInDoc(root, "w:delText")) :
        BelowTag(root, q, "w:ins") => BelowTag(root, q, "w:del")

\* the region rules of Word: no w:t below a w:del, and no w:delText below
\* a w:ins unless it is below a w:del
RegionRules(root) ==
    /\ \A q \in SeqToSet(ByTagInDoc(root, "w:t")) : ~BelowTag(root, q, "w:del")
    /\ \A q \in SeqToSet(ByTagInDoc(root, "w:delText")) :
          BelowTag(root, q, "w:ins") => BelowTag(root, q, "w:del")

TransformNames == {"suggest_deletion", "revert_insertion", "revert_deletion"}

\* C24: a successful suggest_deletion, revert_insertion or revert_deletion
\* on a body that satisfies the region rules leaves a body on which
\* validate_deletions and validate_insertions pass
C24_RegionGrammarKept ==
    [][(last'.op \in TransformNames /\ ~last'.raised /\ nops' = nops + 1 /\ RegionRules(dom))
          => (validate_deletions(dom') /\ validate_insertions(dom'))]_vars


\* ------------------------------------------------------------------------
\* Claims on the attributes of tracked-change elements (SpecTree)
\* ------------------------------------------------------------------------
\* the w:ins and w:del elements of a tree, as paths
ChangeElements(tree) == SeqToSet(ByTagInDoc(tree, "w:ins")) \cup SeqToSet(ByTagInDoc(tree, "w:del"))

ChangeAttrs == {"w:id", "w:author", "w:date"}

Attributed(tree) ==
    \A q \in ChangeElements(tree) : \A k \in ChangeAttrs : HasAttr(At(tree, q), k)

\* C25: a transform that returns, called on a body whose insertion and
\* deletion elements all carry w:id, w:author and w:date, leaves a body whose
\* insertion and deletion elements all carry them: the elements it created
\* included, the marker in the run properties of a numbered paragraph too
C25_CreatedChangesAttributed ==
    [][(last'.op \in TransformNames /\ ~last'.raised /\ nops' = nops + 1 /\ Attributed(dom))
          => Attributed(dom')]_vars


\* ------------------------------------------------------------------------
\* The package's declarations of the comment parts: word/people.xml and the
\* four comment files, their Relationship entries in
\* word/_rels/document.xml.rels and their Override entries in
\* [Content_Types].xml
\* ------------------------------------------------------------------------
MaxAdded == 2

PeopleTarget == "people.xml"

\* the targets _ensure_comment_relationships lists, in its order
CommentTargets == <<"comments.xml", "commentsExtended.xml", "commentsIds.xml", "commentsExtensible.xml">>

\* the PartName of the Override each target is declared with
PartName(target) ==
    CASE target = "people.xml" -> "/word/people.xml"
      [] target = "comments.xml" -> "/word/comments.xml"
      [] target = "commentsExtended.xml" -> "/word/commentsExtended.xml"
      [] target = "commentsIds.xml" -> "/word/commentsIds.xml"
      [] target = "commentsExtensible.xml" -> "/word/commentsExtensible.xml"
      [] OTHER -> "/word/"

RelEntry(id, target) == [Id |-> id, Target |-> target]

has_relationship(rels, target) == \E k \in 1..Len(rels) : rels[k].Target = target

has_override(overrides, part_name) == \E k \in 1..Len(overrides) : overrides[k] = part_name

RECURSIVE MaxRid(_, _)
MaxRid(rels, k) == IF k > Len(rels) THEN 0 ELSE Max2(rels[k].Id, MaxRid(rels, k + 1))

\* XMLEditor.get_next_rid, as the number after "rId"
get_next_rid(rels) == MaxRid(rels, 1) + 1

ensure_comment_relationships(pkg) ==
    IF has_relationship(pkg.rels, "comments.xml") THEN pkg
    ELSE LET n == get_next_rid(pkg.rels)
         IN [pkg EXCEPT !.rels = @ \o [k \in 1..Len(CommentTargets) |->
                                           RelEntry(n + k - 1, CommentTargets[k])]]

ensure_comment_content_types(pkg) ==
    IF has_override(pkg.overrides, "/word/comments.xml") THEN pkg
    ELSE [pkg EXCEPT !.overrides = @ \o [k \in 1..Len(CommentTargets) |->
                                             PartName(CommentTargets[k])]]

\* _update_people_xml, _add_content_type_for_people, _add_relationship_for_people
setup_tracking(pkg) ==
    LET p1 == [pkg EXCEPT !.files = @ \cup {PeopleTarget}]
        p2 == IF has_override(p1.overrides, "/word/people.xml") THEN p1
              ELSE [p1 EXCEPT !.overrides = Append(@, "/word/people.xml")]
    IN IF has_relationship(p2.rels, PeopleTarget) THEN p2
       ELSE [p2 EXCEPT !.rels = Append(@, RelEntry(get_next_rid(p2.rels), PeopleTarget))]

\* the files the four _add_to_*_xml helpers copy from the templates
add_comment_files(pkg) == [pkg EXCEPT !.files = @ \cup SeqToSet(CommentTargets)]

\* Document.save up to the copy: the two _ensure_ calls run where
\* comments.xml exists
save_declarations(pkg) ==
    IF "comments.xml" \in pkg.files
    THEN ensure_comment_content_types(ensure_comment_relationships(pkg))
    ELSE pkg

\* an original package declares every part it holds; the comment files
\* beyond comments.xml come with comments.xml only
Declared(files) ==
    LET listed == SelectSeq(<<PeopleTarget>> \o CommentTargets, LAMBDA t : t \in files)
    IN [files |-> files,
        rels |-> <<RelEntry(1, "styles.xml"), RelEntry(2, "settings.xml")>>
                     \o [k \in 1..Len(listed) |-> RelEntry(k + 2, listed[k])],
        overrides |-> <<"/word/document.xml">> \o [k \in 1..Len(listed) |-> PartName(listed[k])]]

OriginalPackages ==
    {Declared(f) : f \in {g \in SUBSET ({PeopleTarget} \cup SeqToSet(CommentTargets)) :
                             g \cap SeqToSet(CommentTargets) # {} => "comments.xml" \in g}}

NotSaved == [files |-> {}, rels |-> <<>>, overrides |-> <<>>]

InitParts ==
    /\ disk \in OriginalPackages
    /\ sess = [constructed |-> FALSE, added |-> 0, saved |-> NotSaved, added_at_save |-> 0]
    /\ dom = Idle /\ base = Idle /\ author = Idle /\ nops = 0 /\ last = Idle
    /\ direct = FALSE
    /\ mem = Idle /\ hist = Idle /\ xsd = Idle /\ chk = Idle

\* Document(unpacked_dir)
ConstructParts ==
    /\ ~sess.constructed
    /\ disk' = setup_tracking(disk)
    /\ sess' = [sess EXCEPT !.constructed = TRUE]
    /\ UNCHANGED <<treeVars, author, mem, hist, xsd, chk>>

\* add_comment or reply_to_comment returning a comment id
AddCommentParts ==
    /\ sess.constructed
    /\ sess.added < MaxAdded
    /\ disk' = add_comment_files(disk)
    /\ sess' = [sess EXCEPT !.added = @ + 1]
    /\ UNCHANGED <<treeVars, author, mem, hist, xsd, chk>>

\* save(): the working copy with its declarations is what reaches the target
SaveParts ==
    /\ sess.constructed
    /\ disk' = save_declarations(disk)
    /\ sess' = [sess EXCEPT !.saved = save_declarations(disk), !.added_at_save = sess.added]
    /\ UNCHANGED <<treeVars, author, mem, hist, xsd, chk>>

NextParts == ConstructParts \/ AddCommentParts \/ SaveParts

SpecParts == InitParts /\ [][NextParts]_vars

\* a part of the package is orphaned when it lacks its Relationship or its
\* Override
NoOrphan(pkg, target) ==
    /\ \E k \in 1..Len(pkg.rels) : pkg.rels[k].Target = target
    /\ \E k \in 1..Len(pkg.overrides) : pkg.overrides[k] = PartName(target)

\* C26: in a package saved after at least one comment was added, every
\* comment-related part that exists has a Relationship entry and an Override
\* entry
C26_NoOrphanedCommentPart ==
    (sess.saved # NotSaved /\ sess.added_at_save >= 1) =>
        \A target \in sess.saved.files : NoOrphan(sess.saved, target)


\* ------------------------------------------------------------------------
\* Claims on the anchors of a comment in the body (Spec)
\* ------------------------------------------------------------------------
RECURSIVE Precedes(_, _)
\* document order of two elements given by their paths: an element precedes
\* its descendants and everything after its end tag
Precedes(p, q) ==
    IF p = <<>> THEN q # <<>>
    ELSE IF q = <<>> THEN FALSE
    ELSE IF Head(p) # Head(q) THEN Head(p) < Head(q)
    ELSE Precedes(Tail(p), Tail(q))

\* the element q directly follows the element p as its next sibling
DirectlyFollows(q, p) ==
    Len(p) > 0 /\ ParentPath(q) = ParentPath(p) /\ q[Len(q)] = p[Len(p)] + 1

\* the last call was a comment operation that returned the id NewId
JustCommented(op) ==
    hist.constructed /\ hist.last.op = op /\ ~hist.last.raised /\ hist.returned # <<>>

NewId == StrOf(hist.returned[Len(hist.returned)])

NewParent == hist.created[Len(hist.created)].parent

\* one start, one end and one reference carry id, in this order in the
\* body: start, end, the run holding the reference
AnchoredInOrder(id) ==
    /\ Cardinality(MarkersWithId("w:commentRangeStart", id)) = 1
    /\ Cardinality(MarkersWithId("w:commentRangeEnd", id)) = 1
    /\ Cardinality(MarkersWithId("w:commentReference", id)) = 1
    /\ \A s \in MarkersWithId("w:commentRangeStart", id),
          e \in MarkersWithId("w:commentRangeEnd", id),
          r \in MarkersWithId("w:commentReference", id) :
            Precedes(s, e) /\ Precedes(e, ParentPath(r))

\* the new start directly follows the parent's start; the new end and the
\* new reference run follow the parent's reference run
ReplyAnchoredAtParent(id, parent) ==
    \A s \in MarkersWithId("w:commentRangeStart", id),
       e \in MarkersWithId("w:commentRangeEnd", id),
       r \in MarkersWithId("w:commentReference", id),
       ps \in MarkersWithId("w:commentRangeStart", parent),
       pr \in MarkersWithId("w:commentReference", parent) :
         /\ DirectlyFollows(s, ps)
         /\ Precedes(ParentPath(pr), e)
         /\ Precedes(ParentPath(pr), ParentPath(r))

\* C27: after add_comment and after reply_to_comment returned, the body
\* holds exactly one range start, one range end and one reference with the
\* new id, in the order start, end, reference run; a reply's start directly
\* follows the parent's start and its end nodes follow the parent's
\* reference run
C27_AnchorOrder ==
    /\ JustCommented("add_comment") => AnchoredInOrder(NewId)
    /\ JustCommented("reply_to_comment") =>
           AnchoredInOrder(NewId) /\ ReplyAnchoredAtParent(NewId, StrOf(NewParent))


\* ------------------------------------------------------------------------
\* Claims on Document.validate against the validation inside save (SpecSave)
\* ------------------------------------------------------------------------
\* the verdict validate() gives when it is called now
VerdictOfValidate(schema_ok) == Document_validate_disk(disk, schema_ok)

\* the verdict of the validation save() performs when it is called now
VerdictInsideSave(schema_ok) == Document_validate_disk(save_editors(disk, mem), schema_ok)

\* C28: in every state of a constructed session validate() gives the verdict
\* that the validation inside save() gives for that state
C28_ValidateJudgesCurrentState ==
    hist.constructed =>
        \A schema_ok \in SchemaVerdicts : VerdictOfValidate(schema_ok) = VerdictInsideSave(schema_ok)


\* ------------------------------------------------------------------------
\* The unedited session: Document(dir) followed by validate() or save()
\* with no mutation in between
\* ------------------------------------------------------------------------
\* the children of one paragraph of an original body; id is the w:id of its
\* region
OriginalKids(id) ==
    {<<RunR(<<T(<<"a">>)>>)>>,
     <<RunR(<<T(<<" ">>)>>)>>,
     <<RunR(<<T(<<"a">>)>>), Region("w:del", id, "Claude", <<RunD(<<DT(<<"b">>)>>)>>)>>}
    \cup {<<RunR(<<T(<<"a">>)>>), Region("w:ins", id, who, <<RunR(<<T(<<" ">>)>>)>>)>> :
              who \in {"Claude", "Ann"}}
    \cup {<<RunR(<<T(<<"a">>)>>), Region("w:del", id, who, <<RunD(<<DT(<<" ">>)>>)>>)>> :
              who \in {"Claude", "Ann"}}

OriginalBodies ==
    {Elem("w:body", NoAttrs, <<Para(k1), Para(k2), Elem("w:sectPr", NoAttrs, <<>>)>>) :
        k1 \in OriginalKids("1"), k2 \in OriginalKids("2")}

InitUnedited ==
    /\ dom \in OriginalBodies
    /\ base = Idle
    /\ last = [op |-> "none", raised |-> FALSE]
    /\ author = "Claude" /\ nops = 0 /\ direct = FALSE
    /\ mem = Idle /\ disk = Idle /\ sess = Idle /\ hist = Idle
    /\ xsd = Idle /\ chk = Idle

\* Document(dir): the working copy is a copy of dir, the baseline is packed
OpenUnedited ==
    /\ last.op = "none"
    /\ base' = condense_xml(dom)
    /\ last' = [op |-> "Document", raised |-> FALSE]
    /\ UNCHANGED <<dom, author, nops, direct, sessionVars, xsd, chk>>

\* validate(): the validator reads the working copy as it was copied
ValidateUnedited ==
    /\ last.op # "none"
    /\ last' = [op |-> "validate", raised |-> ~RedliningValidate(dom, base)]
    /\ UNCHANGED <<dom, base, author, nops, direct, sessionVars, xsd, chk>>

\* save(): the editor of document.xml writes its tree, then the same check
SaveUnedited ==
    /\ last.op # "none"
    /\ dom' = SavedXml(dom)
    /\ last' = [op |-> "save", raised |-> ~RedliningValidate(SavedXml(dom), base)]
    /\ UNCHANGED <<base, author, nops, direct, sessionVars, xsd, chk>>

NextUnedited == OpenUnedited \/ ValidateUnedited \/ SaveUnedited

SpecUnedited == InitUnedited /\ [][NextUnedited]_vars

\* C29: the redlining check of an unedited session passes, whatever the
\* original package holds
C29_UneditedPasses ==
    last.op \in {"validate", "save"} => ~last.raised


\* ------------------------------------------------------------------------
\* Claims on the ids drawn for a new comment (Spec)
\* ------------------------------------------------------------------------
\* the comment the last call created
NewComment == hist.returned[Len(hist.returned)]

\* the entries of commentsIds.xml, the last one being the new comment's
IdEntries == mem[CommentsIdsXml].root.kids

\* C30: the paragraph id of a new comment differs from the paragraph id of
\* every other comment the session knows, and its durable id differs from
\* the durable id of every earlier entry of commentsIds.xml
C30_FreshIds ==
    (JustCommented("add_comment") \/ JustCommented("reply_to_comment")) =>
        /\ \A other \in DOMAIN sess.existing_comments \ {NewComment} :
              sess.existing_comments[other] # sess.existing_comments[NewComment]
        /\ \A k \in 1..(Len(IdEntries) - 1) :
              GetAttr(IdEntries[k], "w16cid:durableId")
                  # GetAttr(IdEntries[Len(IdEntries)], "w16cid:durableId")

====
